---- MODULE Spec2Model ----
(***************************************************************************)
(* Storage and indexing layer of arcanine: the YAML document store         *)
(* (storage/yaml_store.rs) and the collection manager with its two         *)
(* in-memory indices (storage/collection_manager.rs).                      *)
(*                                                                         *)
(* A path is a sequence of components, a component a sequence of the       *)
(* dot-separated parts of its name: "a.collection.yaml" is                 *)
(* <<"a", "collection", "yaml">>, the root is <<"/">>, "." is <<".">>.     *)
(* A file's content is a sequence of chunks <<doc, k>>, the k-th piece of  *)
(* the YAML text of document doc.                                          *)
(***************************************************************************)
EXTENDS Integers, Sequences, FiniteSets, TLC

VARIABLES
    base_path,          \* CollectionManager.base_path / YAMLStore.base_path
    fs,                 \* the disk: location (absolute path) -> content
    collection_index,   \* path -> Collection
    request_index,      \* request name -> <<path, position>> (0-based)
    last,               \* the last manager call, what it returned, and (delete)
                        \* collection_index as it was before the call
    returned,           \* paths returned by successful save_collection calls
    nops,               \* number of manager calls made so far
    writers,            \* threads inside YAMLStore::save_yaml: writer -> its position,
                        \* arguments, open temporary file and result
    renamed,            \* location -> the document of the last rename onto it
    threads,            \* threads inside a manager call: thread -> its position,
                        \* arguments, locals and result
    watcher,            \* CollectionManager.watcher: Option<RecommendedWatcher>
    delivered,          \* the callback invocations so far, <<path, change type>>
    store,              \* RequestStore.store: name -> Request
    locks,              \* the manager's RwLocks: lock -> its writer and its readers
    poisoned            \* the locks a panic has poisoned

vars == <<base_path, fs, collection_index, request_index, last, returned, nops,
          writers, renamed, threads, watcher, delivered, store, locks, poisoned>>

watch_vars == <<watcher, delivered>>

lock_vars == <<locks, poisoned>>

\* the state of the components a call of the storage layer does not touch
rest_vars == <<watch_vars, store, lock_vars>>

index_vars == <<collection_index, request_index>>

call_vars == <<last, returned, nops>>

save_vars == <<writers, renamed>>

----------------------------------------------------------------------------
(* Bounds *)

\* manager calls per behaviour of Spec
MaxOps == 4

\* pieces the YAML text of one document is written in
NChunks == 2

\* manager calls started per behaviour of SpecIdx
MaxCalls == 3

----------------------------------------------------------------------------
(* Option<T> *)

None == <<>>

Some(x) == <<x>>

Range(s) == {s[i] : i \in DOMAIN s}

----------------------------------------------------------------------------
(* models/request.rs, models/collection.rs: sample values *)

NoHeaders == [k \in {} |-> ""]

Req(name, url) ==
    [method |-> "Get", url |-> url, headers |-> NoHeaders, body |-> None, name |-> name]

ReqX == Req("x", "https://h/x")

ReqY == [Req("y", "https://h/y") EXCEPT !.method = "Post", !.body = Some("b"),
                                         !.headers = [k \in {"Accept"} |-> "json"]]

ReqX2 == Req("x", "https://h/x2")

\* CollectionMetadata::default()
DefaultMetadata ==
    [version |-> Some("1.0.0"), author |-> None, created_at |-> None, updated_at |-> None]

\* Collection::new(name)
NewCollection(name) ==
    [name |-> name, requests |-> <<>>, description |-> None, metadata |-> DefaultMetadata]

CollA == [NewCollection("A") EXCEPT !.requests = <<ReqX, ReqY>>, !.description = Some("d")]

CollA2 == [NewCollection("A") EXCEPT !.requests = <<ReqY>>]

CollB == [NewCollection("B") EXCEPT !.requests = <<ReqX2>>,
                                    !.metadata = [DefaultMetadata EXCEPT !.version = None,
                                                                         !.author = Some("me")]]

CollD == [NewCollection("D") EXCEPT !.requests = <<ReqX, ReqX2>>, !.description = Some("")]

Collections == {CollA, CollA2, CollB, CollD}

RequestNames == {"x", "y", "z"}

----------------------------------------------------------------------------
(* serde: the YAML document of a value, and the value of a document.       *)
(* A document is a mapping from the keys present in the text to values.    *)

Opt(key, o) == IF o = None THEN <<>> ELSE (key :> o[1])

MethodToYaml(m) ==
    CASE m = "Get" -> "GET" [] m = "Post" -> "POST" [] m = "Put" -> "PUT"
      [] m = "Patch" -> "PATCH" [] m = "Delete" -> "DELETE" [] m = "Head" -> "HEAD"
      [] m = "Options" -> "OPTIONS"

MethodFromYaml(s) ==
    CASE s = "GET" -> Some("Get") [] s = "POST" -> Some("Post") [] s = "PUT" -> Some("Put")
      [] s = "PATCH" -> Some("Patch") [] s = "DELETE" -> Some("Delete")
      [] s = "HEAD" -> Some("Head") [] s = "OPTIONS" -> Some("Options")
      [] OTHER -> None

\* #[derive(Serialize)] for Request: body is skipped when None
SerializeRequest(r) ==
    [method |-> MethodToYaml(r.method), url |-> r.url, headers |-> r.headers, name |-> r.name]
        @@ Opt("body", r.body)

\* #[derive(Deserialize)] for Request: method, url, name required; headers default
RequestDocOk(d) ==
    /\ {"method", "url", "name"} \subseteq DOMAIN d
    /\ MethodFromYaml(d.method) # None

DeserializeRequest(d) ==
    [method |-> MethodFromYaml(d.method)[1],
     url |-> d.url,
     headers |-> IF "headers" \in DOMAIN d THEN d.headers ELSE NoHeaders,
     body |-> IF "body" \in DOMAIN d THEN Some(d.body) ELSE None,
     name |-> d.name]

\* #[derive(Serialize)] for CollectionMetadata: every None field is skipped
SerializeMetadata(m) ==
    Opt("version", m.version) @@ Opt("author", m.author)
        @@ Opt("created_at", m.created_at) @@ Opt("updated_at", m.updated_at)

FieldOf(d, key) == IF key \in DOMAIN d THEN Some(d[key]) ELSE None

DeserializeMetadata(d) ==
    [version |-> FieldOf(d, "version"), author |-> FieldOf(d, "author"),
     created_at |-> FieldOf(d, "created_at"), updated_at |-> FieldOf(d, "updated_at")]

\* #[derive(Serialize)] for Collection: description is skipped when None
SerializeCollection(c) ==
    [name |-> c.name,
     requests |-> [i \in DOMAIN c.requests |-> SerializeRequest(c.requests[i])],
     metadata |-> SerializeMetadata(c.metadata)]
        @@ Opt("description", c.description)

\* #[derive(Deserialize)] for Collection: name required; requests and metadata default
CollectionDocOk(d) ==
    /\ "name" \in DOMAIN d
    /\ "requests" \in DOMAIN d => \A i \in DOMAIN d.requests : RequestDocOk(d.requests[i])

DeserializeCollection(d) ==
    [name |-> d.name,
     requests |-> IF "requests" \in DOMAIN d
                  THEN [i \in DOMAIN d.requests |-> DeserializeRequest(d.requests[i])]
                  ELSE <<>>,
     description |-> FieldOf(d, "description"),
     metadata |-> IF "metadata" \in DOMAIN d
                  THEN DeserializeMetadata(d.metadata)
                  ELSE DefaultMetadata]

\* serde_yaml::to_string: the text of a document, as the chunks it is written in
to_string(doc) == [k \in 1..NChunks |-> <<doc, k>>]

\* a complete text: every chunk of one document, in order
IsCompleteText(text) ==
    /\ Len(text) = NChunks
    /\ \A k \in 1..NChunks : text[k] = <<text[1][1], k>>

\* serde_yaml::from_str::<Collection>
from_str(text) ==
    IF IsCompleteText(text) /\ CollectionDocOk(text[1][1])
    THEN [ok |-> TRUE, val |-> DeserializeCollection(text[1][1])]
    ELSE [ok |-> FALSE, err |-> <<"SerializeError">>]

----------------------------------------------------------------------------
(* std::path: Path/PathBuf *)

Root == <<"/">>

CurDir == <<".">>

\* the process's working directory
Cwd == <<Root, <<"cwd">>>>

\* Path::is_absolute
is_absolute(p) == Len(p) > 0 /\ p[1] = Root

\* Path::components drops every "." that is not the first component
Interior(p) == SelectSeq(p, LAMBDA c : c # CurDir)

\* Path::join: an absolute argument replaces the receiver
join(a, b) ==
    IF is_absolute(b) THEN b
    ELSE IF Len(a) = 0 THEN b
    ELSE a \o Interior(b)

\* the component ".."
ParentDir == <<"..">>

\* the first n components with every ".." resolved against what precedes it
RECURSIVE Resolved(_, _)
Resolved(p, n) ==
    IF n = 0 THEN <<>>
    ELSE LET before == Resolved(p, n - 1)
         IN  IF p[n] # ParentDir THEN Append(before, p[n])
             ELSE IF Len(before) > 1 THEN SubSeq(before, 1, Len(before) - 1)
             ELSE before

\* the location the operating system resolves a path to
Location(p) ==
    LET full == IF is_absolute(p) THEN p ELSE Cwd \o Interior(p)
    IN  IF \E i \in DOMAIN full : full[i] = ParentDir THEN Resolved(full, Len(full)) ELSE full

\* Path::exists
exists(p) == Location(p) \in DOMAIN fs

Front(s) == SubSeq(s, 1, Len(s) - 1)

Last(s) == s[Len(s)]

\* Path::with_extension: the part after the last dot of the file name is replaced
with_extension(p, ext) ==
    LET name == Last(p)
        stem == IF Len(name) > 1 THEN Front(name) ELSE name
    IN  Front(p) \o <<stem \o ext>>

\* Path::file_stem: the file name without the part after its last dot
file_stem(p) ==
    LET name == Last(p) IN IF Len(name) > 1 THEN Front(name) ELSE name

\* format!("{}.collection.yaml", filename), as one path component
CollectionFileName(filename) == filename \o <<"collection", "yaml">>

\* the strings with a '/' that callers pass as a file name, and their pieces
Separated == ("../evil" :> <<"..", "evil">>) @@ ("a/b" :> <<"a", "b">>)

\* Path::components of a file name: a name with a '/' is a directory and a name
components(name) ==
    IF name[1] \notin DOMAIN Separated THEN <<name>>
    ELSE LET pieces == Separated[name[1]]
         IN  <<IF pieces[1] = ".." THEN ParentDir ELSE <<pieces[1]>>,
               <<pieces[2]>> \o SubSeq(name, 2, Len(name))>>

\* the base directories a manager is created with: the application's
\* "./collections" (lib.rs) and the same directory spelled absolutely
BaseRel == <<CurDir, <<"collections">>>>

BaseAbs == Cwd \o <<<<"collections">>>>

BasePaths == {BaseRel, BaseAbs}

\* file names (without extension) the callers pass to save_collection
Filenames == {<<"f1">>, <<"f2">>}

----------------------------------------------------------------------------
(* storage/yaml_store.rs *)

Ok(v) == [ok |-> TRUE, val |-> v]

Err(e) == [ok |-> FALSE, err |-> e]

\* the disk with the file at location loc holding text
WriteFile(disk, loc, text) ==
    [l \in DOMAIN disk \cup {loc} |-> IF l = loc THEN text ELSE disk[l]]

\* the disk without the file at location loc
RemoveFile(disk, loc) == [l \in DOMAIN disk \ {loc} |-> disk[l]]

\* fs::rename(from, to)
RenameFile(disk, from, to) ==
    IF from = to THEN disk ELSE RemoveFile(WriteFile(disk, to, disk[from]), from)

\* (mutant) the path is used as given, relative to the working directory
resolve_path_as_given(p) == p

\* YAMLStore::resolve_path
resolve_path(p) == IF is_absolute(p) THEN p ELSE join(base_path, p)

\* (mutant) the document is written in place, straight to the target
temp_path_in_place(file_path) == file_path

\* the temporary file of save_yaml
temp_path(file_path) == with_extension(file_path, <<"yaml", "tmp">>)

\* YAMLStore::save_yaml run to completion by one writer: the disk afterwards
save_yaml(disk, file_path, doc) ==
    LET tmp == Location(temp_path(file_path))
    IN  RenameFile(WriteFile(disk, tmp, to_string(doc)), tmp, Location(file_path))

\* YAMLStore::save_collection: the path it writes and returns
collection_file_path(filename) == join(base_path, components(CollectionFileName(filename)))

\* YAMLStore::load_collection
store_load_collection(file_path) ==
    LET full_path == resolve_path(file_path)
    IN  IF ~exists(full_path) THEN Err(<<"FileNotFound", full_path>>)
        ELSE from_str(fs[Location(full_path)])

\* YAMLStore::delete_file: its result, and the disk afterwards
delete_file_result(file_path) ==
    LET full_path == resolve_path(file_path)
    IN  IF ~exists(full_path) THEN Err(<<"FileNotFound", full_path>>) ELSE Ok(<<>>)

\* (mutant) the file is left on disk
delete_file_disk_kept(file_path) == fs

delete_file_disk(file_path) ==
    LET full_path == resolve_path(file_path)
    IN  IF ~exists(full_path) THEN fs ELSE RemoveFile(fs, Location(full_path))

----------------------------------------------------------------------------
(* storage/collection_manager.rs *)

\* HashMap::insert
Insert(map, k, v) == [x \in DOMAIN map \cup {k} |-> IF x = k THEN v ELSE map[x]]

\* HashMap::remove
Remove(map, k) == [x \in DOMAIN map \ {k} |-> map[x]]

EmptyMap == [x \in {} |-> <<>>]

\* RwLock::write() / RwLock::read() return Ok unless the lock is poisoned
write_ok(lock) == lock \notin poisoned

read_ok(lock) == lock \notin poisoned

\* if let Ok(mut guard) = lock.write() { .. }: the value after the statement,
\* the block being skipped on a poisoned lock
if_write_ok(lock, old, new) == IF write_ok(lock) THEN new ELSE old

\* add_to_index, first critical section
index_collection(cidx, path, collection) == Insert(cidx, path, collection)

\* the loop of add_to_index: requests[1..n] inserted in order, position 0-based
RECURSIVE InsertRequests(_, _, _, _)
InsertRequests(ridx, path, requests, n) ==
    IF n = 0 THEN ridx
    ELSE Insert(InsertRequests(ridx, path, requests, n - 1),
                requests[n].name, <<path, n - 1>>)

\* (mutant) a name already indexed keeps its entry
RECURSIVE index_requests_keep_existing(_, _, _, _)
index_requests_keep_existing(ridx, path, requests, n) ==
    IF n = 0 THEN ridx
    ELSE LET r == index_requests_keep_existing(ridx, path, requests, n - 1)
         IN  IF requests[n].name \in DOMAIN r THEN r
             ELSE Insert(r, requests[n].name, <<path, n - 1>>)

\* (mutant) the entries of this path are dropped before the requests are inserted
index_requests_rebuilt(ridx, path, requests, n) ==
    InsertRequests([k \in {x \in DOMAIN ridx : ridx[x][1] # path} |-> ridx[k]],
                   path, requests, n)

\* add_to_index, second critical section
index_requests(ridx, path, requests, n) == InsertRequests(ridx, path, requests, n)

\* what a thread that panicked leaves in place of a result
Panicked == [panic |-> "index out of bounds"]

\* (mutant) requests[idx].clone(): indexing past the end panics
get_unchecked(seq, idx) == IF idx < Len(seq) THEN Some(seq[idx + 1]) ELSE Some(Panicked)

\* Vec::get(idx).cloned(), idx 0-based
get(seq, idx) == IF idx < Len(seq) THEN Some(seq[idx + 1]) ELSE None

\* (mutant) the request is searched by name in the collection (Collection::find_request)
find_request_by_scan(ridx, cidx, name) ==
    IF name \notin DOMAIN ridx THEN None
    ELSE LET collection_path == ridx[name][1]
         IN  IF collection_path \notin DOMAIN cidx THEN None
             ELSE LET requests == cidx[collection_path].requests
                      hits == {i \in DOMAIN requests : requests[i].name = name}
                  IN  IF hits = {} THEN None
                      ELSE Some(requests[CHOOSE i \in hits : \A j \in hits : i <= j])

\* CollectionManager::find_request_by_name
find_request_by_name(ridx, cidx, name) ==
    IF name \notin DOMAIN ridx THEN None
    ELSE LET collection_path == ridx[name][1]
             request_idx == ridx[name][2]
         IN  IF collection_path \notin DOMAIN cidx THEN None
             ELSE get(cidx[collection_path].requests, request_idx)

\* CollectionManager::find_collection_by_name: the values a scan of the map may find first
find_collection_by_name(cidx, name) ==
    IF \E p \in DOMAIN cidx : cidx[p].name = name
    THEN {Some(cidx[p]) : p \in {q \in DOMAIN cidx : cidx[q].name = name}}
    ELSE {None}

\* CollectionManager::collection_count
collection_count == Cardinality(DOMAIN collection_index)

\* the paths the callers pass to load_collection and delete_collection:
\* a path save_collection returned, or the file's name relative to base_path
PathsOf(filename) ==
    {collection_file_path(filename), <<CollectionFileName(filename)>>}

CallPaths == UNION {PathsOf(f) : f \in Filenames}

\* the call is counted; no other thread is inside a call
Bump == nops' = nops + 1 /\ UNCHANGED <<save_vars, threads, rest_vars>>

\* CollectionManager::load_collection
LoadCollection(path) ==
    LET r == store_load_collection(path)
    IN  /\ nops < MaxOps
        /\ IF r.ok
           THEN /\ collection_index' = if_write_ok("collection_index", collection_index,
                       index_collection(collection_index, path, r.val))
                /\ request_index' = if_write_ok("request_index", request_index,
                       index_requests(request_index, path, r.val.requests, Len(r.val.requests)))
           ELSE UNCHANGED <<collection_index, request_index>>
        /\ last' = [op |-> "load", path |-> path, res |-> r]
        /\ Bump
        /\ UNCHANGED <<base_path, fs, returned>>

\* CollectionManager::save_collection
SaveCollection(collection, filename) ==
    LET path == collection_file_path(filename)
    IN  /\ nops < MaxOps
        /\ fs' = save_yaml(fs, path, SerializeCollection(collection))
        /\ collection_index' = if_write_ok("collection_index", collection_index,
               index_collection(collection_index, path, collection))
        /\ request_index' = if_write_ok("request_index", request_index,
               index_requests(request_index, path, collection.requests, Len(collection.requests)))
        /\ last' = [op |-> "save", path |-> path, res |-> Ok(path), arg |-> collection]
        /\ returned' = returned \cup {path}
        /\ Bump
        /\ UNCHANGED base_path

\* (mutant) the index entry is removed only when the file is there to delete
delete_from_index_if_file(cidx, path) ==
    IF exists(resolve_path(path)) THEN Remove(cidx, path) ELSE cidx

\* delete_collection, "remove from index first"
delete_from_index(cidx, path) == Remove(cidx, path)

\* CollectionManager::delete_collection
DeleteCollection(path) ==
    /\ nops < MaxOps
    /\ collection_index' = if_write_ok("collection_index", collection_index,
           delete_from_index(collection_index, path))
    /\ fs' = delete_file_disk(path)
    /\ last' = [op |-> "delete", path |-> path, res |-> delete_file_result(path),
                before |-> collection_index]
    /\ Bump
    /\ UNCHANGED <<base_path, request_index, returned>>

\* CollectionManager::clear_index
ClearIndex ==
    /\ nops < MaxOps
    /\ collection_index' = if_write_ok("collection_index", collection_index, EmptyMap)
    /\ request_index' = if_write_ok("request_index", request_index, EmptyMap)
    /\ last' = [op |-> "clear"]
    /\ Bump
    /\ UNCHANGED <<base_path, fs, returned>>

\* find_request_by_name with its two read() calls: .ok()? returns None on a
\* poisoned lock, the second lock being reached when the name is a key
find_request_result(name) ==
    IF ~read_ok("request_index") THEN None
    ELSE IF name \in DOMAIN request_index /\ ~read_ok("collection_index") THEN None
    ELSE find_request_by_name(request_index, collection_index, name)

\* a call of find_request_by_name
FindRequest(name) ==
    /\ nops < MaxOps
    /\ last' = [op |-> "find_request", name |-> name,
                res |-> find_request_result(name)]
    /\ Bump
    /\ UNCHANGED <<base_path, fs, collection_index, request_index, returned>>

\* an RwLock nobody holds.  Whether a waiting writer keeps new readers out is
\* the operating system's policy (std::sync::RwLock guarantees none).
FreeLock == [writer |-> None, readers |-> {}, writers_first |-> FALSE]

LockNames == {"collection_index", "request_index", "watcher"}

\* CollectionManager::new: no watcher, fresh locks; RequestStore::new: empty
InitRest ==
    /\ watcher = None
    /\ delivered = <<>>
    /\ store = EmptyMap
    /\ locks = [l \in LockNames |-> FreeLock]
    /\ poisoned = {}

\* CollectionManager::new(base_path)
Init ==
    /\ base_path \in BasePaths
    /\ fs = EmptyMap
    /\ collection_index = EmptyMap
    /\ request_index = EmptyMap
    /\ last = [op |-> "new"]
    /\ returned = {}
    /\ nops = 0
    /\ writers = EmptyMap
    /\ renamed = EmptyMap
    /\ threads = EmptyMap
    /\ InitRest

Next ==
    \/ \E p \in CallPaths : LoadCollection(p)
    \/ \E c \in Collections, f \in Filenames : SaveCollection(c, f)
    \/ \E p \in CallPaths : DeleteCollection(p)
    \/ ClearIndex
    \/ \E n \in RequestNames : FindRequest(n)

Spec == Init /\ [][Next]_vars

----------------------------------------------------------------------------
(* YAMLStore::save_yaml step by step, by threads sharing the disk.          *)
(* An open file is named by the location its inode is linked at; a rename   *)
(* moves the inode, so a file another thread still has open moves with it.  *)

Writer1 == {"w1"}

Writer2 == {"w1", "w2"}

\* format!("{}.request.yaml", filename), as one path component
RequestFileName(filename) == filename \o <<"request", "yaml">>

\* YAMLStore::save_request: the path it writes and returns
request_file_path(filename) == join(base_path, <<RequestFileName(filename)>>)

\* the documents saved
CollectionDocs == {SerializeCollection(c) : c \in {CollA, CollB}}

RequestDocs == {SerializeRequest(r) : r \in {ReqX}}

\* the calls of save_collection and save_request: <<file_path, document>>
SaveCalls ==
    {<<collection_file_path(f), d>> : f \in Filenames, d \in CollectionDocs}
        \cup {<<request_file_path(f), d>> : f \in {<<"f1">>}, d \in RequestDocs}

\* a byte range never written
Hole == <<EmptyMap, 0>>

\* write(2) of one chunk at offset off (in chunks) of a file
WriteAt(text, off, chunk) ==
    LET n == IF Len(text) > off + 1 THEN Len(text) ELSE off + 1
    IN  [i \in 1..n |-> IF i = off + 1 THEN chunk
                        ELSE IF i <= Len(text) THEN text[i] ELSE Hole]

IdleWriter ==
    [pc |-> "idle", path |-> <<>>, doc |-> EmptyMap, fd |-> None, off |-> 0,
     res |-> None, prev |-> None]

\* save_yaml is entered: parent directory created, document serialized
BeginSave(w) ==
    /\ writers[w].pc = "idle"
    /\ \E call \in SaveCalls :
          writers' = [writers EXCEPT ![w] =
              [IdleWriter EXCEPT !.pc = "create", !.path = call[1], !.doc = call[2],
                                 !.prev = IF exists(call[1])
                                          THEN Some(fs[Location(call[1])]) ELSE None]]
    /\ UNCHANGED <<base_path, fs, index_vars, call_vars, renamed, threads, rest_vars>>

\* fs::File::create(&temp_path): the file is created, or truncated if it is there
CreateTemp(w) ==
    LET tmp == Location(temp_path(writers[w].path))
    IN  /\ writers[w].pc = "create"
        /\ fs' = WriteFile(fs, tmp, <<>>)
        /\ writers' = [writers EXCEPT ![w].pc = "write", ![w].fd = Some(tmp), ![w].off = 0]
        /\ UNCHANGED <<base_path, index_vars, call_vars, renamed, threads, rest_vars>>

\* temp_file.write_all: one write of the next chunk at the file offset
WriteChunk(w) ==
    LET me == writers[w]
        chunk == to_string(me.doc)[me.off + 1]
    IN  /\ me.pc = "write"
        /\ fs' = IF me.fd = None THEN fs
                 ELSE [fs EXCEPT ![me.fd[1]] = WriteAt(fs[me.fd[1]], me.off, chunk)]
        /\ writers' = [writers EXCEPT ![w].off = me.off + 1,
                                       ![w].pc = IF me.off + 1 = NChunks THEN "sync"
                                                 ELSE "write"]
        /\ UNCHANGED <<base_path, index_vars, call_vars, renamed, threads, rest_vars>>

\* temp_file.sync_all
SyncAll(w) ==
    /\ writers[w].pc = "sync"
    /\ writers' = [writers EXCEPT ![w].pc = "rename"]
    /\ UNCHANGED <<base_path, fs, index_vars, call_vars, renamed, threads, rest_vars>>

\* where an open file is linked after the file at from was renamed to to
Moved(fd, from, to) ==
    IF from = to THEN fd
    ELSE IF fd = Some(from) THEN Some(to)
    ELSE IF fd = Some(to) THEN None
    ELSE fd

\* fs::rename(&temp_path, file_path), then the return of save_yaml
RenameTemp(w) ==
    LET me == writers[w]
        tmp == Location(temp_path(me.path))
        target == Location(me.path)
    IN  /\ me.pc = "rename"
        /\ IF tmp \in DOMAIN fs
           THEN /\ fs' = RenameFile(fs, tmp, target)
                /\ writers' = [x \in DOMAIN writers |->
                       IF x = w
                       THEN [me EXCEPT !.pc = "done", !.fd = None, !.res = Some(Ok(<<>>))]
                       ELSE [writers[x] EXCEPT !.fd = Moved(writers[x].fd, tmp, target)]]
                /\ renamed' = Insert(renamed, target, me.doc)
           ELSE /\ writers' = [writers EXCEPT ![w].pc = "done", ![w].fd = None,
                                  ![w].res = Some(Err(<<"ReadError", "NotFound">>))]
                /\ UNCHANGED <<fs, renamed>>
        /\ UNCHANGED <<base_path, index_vars, call_vars, threads, rest_vars>>

\* the caller has its result and may save again
Return(w) ==
    /\ writers[w].pc = "done"
    /\ writers' = [writers EXCEPT ![w] = IdleWriter]
    /\ UNCHANGED <<base_path, fs, index_vars, call_vars, renamed, threads, rest_vars>>

\* the process dies: every thread stops where it is, the disk stays as it is
Crash ==
    /\ \E w \in DOMAIN writers : writers[w].pc \notin {"idle", "crashed"}
    /\ writers' = [w \in DOMAIN writers |->
                      IF writers[w].pc = "idle" THEN writers[w]
                      ELSE [writers[w] EXCEPT !.pc = "crashed", !.fd = None]]
    /\ UNCHANGED <<base_path, fs, index_vars, call_vars, renamed, threads, rest_vars>>

\* the application is started again
Restart ==
    /\ \E w \in DOMAIN writers : writers[w].pc = "crashed"
    /\ writers' = [w \in DOMAIN writers |-> IdleWriter]
    /\ UNCHANGED <<base_path, fs, index_vars, call_vars, renamed, threads, rest_vars>>

InitWriters(ws) ==
    /\ base_path \in BasePaths
    /\ fs = EmptyMap
    /\ collection_index = EmptyMap
    /\ request_index = EmptyMap
    /\ last = [op |-> "new"]
    /\ returned = {}
    /\ nops = 0
    /\ writers = [w \in ws |-> IdleWriter]
    /\ renamed = EmptyMap
    /\ threads = EmptyMap
    /\ InitRest

\* one writer, which may crash
InitCrash == InitWriters(Writer1)

NextCrash ==
    \/ \E w \in DOMAIN writers : BeginSave(w)
    \/ \E w \in DOMAIN writers : CreateTemp(w)
    \/ \E w \in DOMAIN writers : WriteChunk(w)
    \/ \E w \in DOMAIN writers : SyncAll(w)
    \/ \E w \in DOMAIN writers : RenameTemp(w)
    \/ \E w \in DOMAIN writers : Return(w)
    \/ Crash
    \/ Restart

SpecCrash == InitCrash /\ [][NextCrash]_vars

\* two writers, each saving once
InitSave == InitWriters(Writer2)

NextSave ==
    \/ \E w \in DOMAIN writers : BeginSave(w)
    \/ \E w \in DOMAIN writers : CreateTemp(w)
    \/ \E w \in DOMAIN writers : WriteChunk(w)
    \/ \E w \in DOMAIN writers : SyncAll(w)
    \/ \E w \in DOMAIN writers : RenameTemp(w)

SpecSave == InitSave /\ [][NextSave]_vars

----------------------------------------------------------------------------
(* The manager's calls step by step, by threads sharing one manager.  Each  *)
(* critical section is one step; find_request_by_name keeps its read lock   *)
(* on request_index while it reads collection_index.                        *)

Threads == {"t1", "t2"}

IdleThread ==
    [pc |-> "idle", op |-> "", path |-> <<>>, coll |-> EmptyMap, name |-> "",
     entry |-> None, res |-> None, would |-> None]

\* request_index.write() is granted: no thread holds request_index.read()
RequestIndexFree == \A u \in DOMAIN threads : threads[u].pc # "find_collection"

Others == <<base_path, last, returned, save_vars, rest_vars>>

\* a thread enters a manager call
Enter(t) == threads[t].pc = "idle" /\ nops < MaxCalls /\ nops' = nops + 1

Inside == UNCHANGED nops

\* load_collection: yaml_store.load_collection(path)?
LoadStep(t, path) ==
    LET r == store_load_collection(path)
    IN  /\ Enter(t)
        /\ threads' = [threads EXCEPT ![t] =
              IF r.ok
              THEN [IdleThread EXCEPT !.pc = "index_collection", !.op = "load",
                                      !.path = path, !.coll = r.val]
              ELSE [IdleThread EXCEPT !.pc = "done", !.op = "load", !.path = path,
                                      !.res = Some(r)]]
        /\ UNCHANGED <<fs, index_vars, Others>>

\* save_collection: yaml_store.save_collection(collection, filename)?
SaveStep(t, collection, filename) ==
    LET path == collection_file_path(filename)
    IN  /\ Enter(t)
        /\ fs' = save_yaml(fs, path, SerializeCollection(collection))
        /\ threads' = [threads EXCEPT ![t] =
              [IdleThread EXCEPT !.pc = "index_collection", !.op = "save",
                                 !.path = path, !.coll = collection]]
        /\ UNCHANGED <<index_vars, Others>>

\* add_to_index: the critical section of collection_index
IndexCollectionStep(t) ==
    /\ threads[t].pc = "index_collection"
    /\ collection_index' = index_collection(collection_index, threads[t].path, threads[t].coll)
    /\ threads' = [threads EXCEPT ![t].pc = "index_requests"]
    /\ Inside
    /\ UNCHANGED <<fs, request_index, Others>>

\* add_to_index: the critical section of request_index, then the call returns
IndexRequestsStep(t) ==
    LET me == threads[t]
    IN  /\ me.pc = "index_requests"
        /\ RequestIndexFree
        /\ request_index' =
               index_requests(request_index, me.path, me.coll.requests, Len(me.coll.requests))
        /\ threads' = [threads EXCEPT ![t].pc = "done", ![t].res = Some(Ok(me.path))]
        /\ Inside
        /\ UNCHANGED <<fs, collection_index, Others>>

\* delete_collection: the critical section of collection_index
DeleteIndexStep(t, path) ==
    /\ Enter(t)
    /\ collection_index' = delete_from_index(collection_index, path)
    /\ threads' = [threads EXCEPT ![t] =
          [IdleThread EXCEPT !.pc = "delete_file", !.op = "delete", !.path = path]]
    /\ UNCHANGED <<fs, request_index, Others>>

\* delete_collection: yaml_store.delete_file(path)?
DeleteFileStep(t) ==
    LET me == threads[t]
    IN  /\ me.pc = "delete_file"
        /\ fs' = delete_file_disk(me.path)
        /\ threads' = [threads EXCEPT ![t].pc = "done",
                                       ![t].res = Some(delete_file_result(me.path))]
        /\ Inside
        /\ UNCHANGED <<index_vars, Others>>

\* clear_index: the critical section of collection_index
ClearCollectionsStep(t) ==
    /\ Enter(t)
    /\ collection_index' = EmptyMap
    /\ threads' = [threads EXCEPT ![t] = [IdleThread EXCEPT !.pc = "clear_requests",
                                                             !.op = "clear"]]
    /\ UNCHANGED <<fs, request_index, Others>>

\* clear_index: the critical section of request_index
ClearRequestsStep(t) ==
    /\ threads[t].pc = "clear_requests"
    /\ RequestIndexFree
    /\ request_index' = EmptyMap
    /\ threads' = [threads EXCEPT ![t].pc = "done"]
    /\ Inside
    /\ UNCHANGED <<fs, collection_index, Others>>

\* find_request_by_name: request_index.read(), request_index.get(name)?
FindEntryStep(t, name) ==
    /\ Enter(t)
    /\ threads' = [threads EXCEPT ![t] =
          IF name \in DOMAIN request_index
          THEN [IdleThread EXCEPT !.pc = "find_collection", !.op = "find_request",
                   !.name = name, !.entry = Some(request_index[name]),
                   !.would = find_request_by_name(request_index, collection_index, name)]
          ELSE [IdleThread EXCEPT !.pc = "done", !.op = "find_request", !.name = name]]
    /\ UNCHANGED <<fs, index_vars, Others>>

\* find_request_by_name: collection_index.read(), get(collection_path)?,
\* requests.get(request_idx)
FindCollectionStep(t) ==
    LET me == threads[t]
    IN  /\ me.pc = "find_collection"
        /\ threads' = [threads EXCEPT ![t].pc = "done",
               ![t].res = find_request_by_name(Insert(EmptyMap, me.name, me.entry[1]),
                                               collection_index, me.name)]
        /\ Inside
        /\ UNCHANGED <<fs, index_vars, Others>>

\* find_collection_by_name, one critical section
FindByNameStep(t, name) ==
    /\ Enter(t)
    /\ \E r \in find_collection_by_name(collection_index, name) :
          threads' = [threads EXCEPT ![t] =
              [IdleThread EXCEPT !.pc = "done", !.op = "find_collection",
                                 !.name = name, !.res = r]]
    /\ UNCHANGED <<fs, index_vars, Others>>

\* the call has returned; the thread may call again
ReturnStep(t) ==
    /\ threads[t].pc = "done"
    /\ threads' = [threads EXCEPT ![t] = IdleThread]
    /\ Inside
    /\ UNCHANGED <<fs, index_vars, Others>>

CollectionNames == {"A", "B"}

InitIdx ==
    /\ base_path \in BasePaths
    /\ fs = EmptyMap
    /\ collection_index = EmptyMap
    /\ request_index = EmptyMap
    /\ last = [op |-> "new"]
    /\ returned = {}
    /\ nops = 0
    /\ writers = EmptyMap
    /\ renamed = EmptyMap
    /\ threads = [t \in Threads |-> IdleThread]
    /\ InitRest

NextIdx ==
    \/ \E t \in Threads, p \in CallPaths : LoadStep(t, p)
    \/ \E t \in Threads, c \in Collections, f \in Filenames : SaveStep(t, c, f)
    \/ \E t \in Threads : IndexCollectionStep(t)
    \/ \E t \in Threads : IndexRequestsStep(t)
    \/ \E t \in Threads, p \in CallPaths : DeleteIndexStep(t, p)
    \/ \E t \in Threads : DeleteFileStep(t)
    \/ \E t \in Threads : ClearCollectionsStep(t)
    \/ \E t \in Threads : ClearRequestsStep(t)
    \/ \E t \in Threads, n \in RequestNames : FindEntryStep(t, n)
    \/ \E t \in Threads : FindCollectionStep(t)
    \/ \E t \in Threads, n \in CollectionNames : FindByNameStep(t, n)
    \/ \E t \in Threads : ReturnStep(t)

SpecIdx == InitIdx /\ [][NextIdx]_vars

----------------------------------------------------------------------------
(* Claims about the manager, one call at a time (Spec) *)

\* the position (0-based) of the last request named name in requests
LastPosition(requests, name) ==
    (CHOOSE i \in DOMAIN requests :
        /\ requests[i].name = name
        /\ \A j \in DOMAIN requests : requests[j].name = name => j <= i) - 1

NamesOf(collection) == {collection.requests[i].name : i \in DOMAIN collection.requests}

\* C4: right after save_collection(c, f) returned a path, loading that path
\* succeeds and yields a collection equal to c in name, requests and description.
C4_RoundTrip ==
    last.op = "save" =>
        LET r == store_load_collection(last.path)
        IN  /\ r.ok
            /\ r.val.name = last.arg.name
            /\ r.val.requests = last.arg.requests
            /\ r.val.description = last.arg.description

\* the collection a successful load or save handled: the one on disk at the
\* resolved path (load), the argument (save)
Handled ==
    IF last.op = "save" THEN last.arg
    ELSE DeserializeCollection(fs[Location(resolve_path(last.path))][1][1])

\* C5: after a successful load_collection(path) or save_collection(c, f),
\* collection_index maps the path to exactly that collection, and request_index
\* maps each of its request names to (path, position of the last request with
\* that name).
C5_IndexAfterLoadSave ==
    (last.op \in {"load", "save"} /\ last.res.ok) =>
        /\ last.path \in DOMAIN collection_index
        /\ collection_index[last.path] = Handled
        /\ \A n \in NamesOf(Handled) :
              /\ n \in DOMAIN request_index
              /\ request_index[n] = <<last.path, LastPosition(Handled.requests, n)>>

\* a name of the new collection had an entry pointing elsewhere, now overwritten;
\* the collection holds the same name twice
C5_Witness ==
    /\ last.op = "save"
    /\ last.arg = CollD
    /\ nops >= 2
    /\ request_index["x"] = <<last.path, 1>>

\* C6: find_request_by_name(name) is none when name is no key of request_index,
\* when the stored path is no key of collection_index, or when the stored
\* position is past the end of the cached request list; otherwise it is the
\* request at the stored position of the collection cached at the stored path.
C6_FindRequest ==
    last.op = "find_request" =>
        LET n == last.name IN
        IF n \notin DOMAIN request_index THEN last.res = None
        ELSE LET p == request_index[n][1]
                 i == request_index[n][2]
             IN  IF p \notin DOMAIN collection_index THEN last.res = None
                 ELSE IF i >= Len(collection_index[p].requests) THEN last.res = None
                 ELSE last.res = Some(collection_index[p].requests[i + 1])

\* a lookup through a stale entry: the position is past the end, or the
\* request at the position has another name
C6_Witness ==
    /\ last.op = "find_request"
    /\ last.name \in DOMAIN request_index
    /\ request_index[last.name][1] \in DOMAIN collection_index
    /\ \/ request_index[last.name][2] >=
              Len(collection_index[request_index[last.name][1]].requests)
       \/ /\ last.res # None
          /\ last.res[1].name # last.name

\* C8: no load_collection, save_collection or delete_collection (nor a lookup)
\* removes a key of request_index; only clear_index does.
C8_RequestIndexAdditive ==
    [][(DOMAIN request_index \subseteq DOMAIN request_index') \/ last'.op = "clear"]_vars

\* a name whose collection was deleted, or vanished from the newer version of
\* the collection at its path, still has its entry
C8_Witness ==
    \E n \in DOMAIN request_index :
        \/ request_index[n][1] \notin DOMAIN collection_index
        \/ n \notin NamesOf(collection_index[request_index[n][1]])

\* C9: after delete_collection(path) the collection_index entry for path is
\* gone, also when the file deletion failed and the error was returned.
C9_DeleteRemovesEntry ==
    last.op = "delete" =>
        /\ last.path \notin DOMAIN collection_index
        /\ ~last.res.ok => last.res.err[1] = "FileNotFound"

\* a failed delete of a path that was indexed
C9_Witness ==
    /\ last.op = "delete"
    /\ ~last.res.ok
    /\ last.path \in DOMAIN last.before

\* the effect C10 states, of the last (successful) delete
DeletedOne ==
    /\ Location(last.path) \notin DOMAIN fs
    /\ collection_count = Cardinality(DOMAIN last.before) - 1
    /\ \A q \in DOMAIN last.before \ {last.path} :
          q \in DOMAIN collection_index /\ collection_index[q] = last.before[q]

\* C10 as stated: for a path returned by save_collection, a successful
\* delete_collection(path) removes the file and decreases collection_count()
\* by exactly 1, leaving every other entry unchanged.
C10_Original ==
    (last.op = "delete" /\ last.res.ok /\ last.path \in returned) => DeletedOne

\* C10 amended: ... decreases collection_count() by exactly 1 when path is
\* still a key of collection_index, and leaves it unchanged when the entry was
\* removed by clear_index since the save.
C10_DeleteSaved ==
    (last.op = "delete" /\ last.res.ok /\ last.path \in returned) =>
        IF last.path \in DOMAIN last.before
        THEN DeletedOne
        ELSE /\ Location(last.path) \notin DOMAIN fs
             /\ collection_index = last.before

\* a saved collection deleted while another one is indexed
C10_Witness ==
    /\ last.op = "delete"
    /\ last.res.ok
    /\ last.path \in returned
    /\ last.path \in DOMAIN last.before
    /\ collection_count >= 1

----------------------------------------------------------------------------
(* Claims about save_yaml (SpecCrash, SpecSave) *)

IsTempFile(loc) == Last(Last(loc)) = "tmp"

\* C1: one writer, which may crash at any step of save_collection/save_request:
\* the target path holds its complete previous content (or is absent, if it was)
\* or the complete new document, never a partial one; after a successful return
\* it holds the new document.
C1_AtomicSingleWriter ==
    /\ \A loc \in DOMAIN fs : ~IsTempFile(loc) => IsCompleteText(fs[loc])
    /\ \A w \in DOMAIN writers :
          LET me == writers[w]
              target == Location(me.path)
          IN  me.pc # "idle" =>
                /\ IF target \in DOMAIN fs
                   THEN fs[target] = to_string(me.doc) \/ Some(fs[target]) = me.prev
                   ELSE me.prev = None
                /\ (me.pc = "done" /\ me.res[1].ok) => fs[target] = to_string(me.doc)

\* a crash with the temporary file half written, over a target that holds
\* another document
C1_Witness ==
    \E w \in DOMAIN writers :
        LET me == writers[w]
            tmp == Location(temp_path(me.path))
        IN  /\ me.pc = "crashed"
            /\ me.prev # None
            /\ me.prev # Some(to_string(me.doc))
            /\ tmp \in DOMAIN fs
            /\ Len(fs[tmp]) = 1

\* C2: under any interleaving of concurrent saves, the target path never holds
\* a partially written document: it holds a complete text.
C2_NoPartialTarget ==
    \A loc \in DOMAIN fs : ~IsTempFile(loc) => IsCompleteText(fs[loc])

\* C3: when two saves of the same file name ran concurrently and both have
\* returned, neither reported an error and the target holds the complete
\* document of the writer whose rename happened last.
C3_SecondRenameWins ==
    (/\ \A w \in DOMAIN writers : writers[w].pc = "done"
     /\ \A v, w \in DOMAIN writers : writers[v].path = writers[w].path) =>
        \A w \in DOMAIN writers :
            LET target == Location(writers[w].path)
            IN  /\ writers[w].res[1].ok
                /\ target \in DOMAIN fs
                /\ fs[target] = to_string(renamed[target])

----------------------------------------------------------------------------
(* Claims about concurrent manager calls (SpecIdx) *)

\* the requests of the collections cached in cidx
CachedRequests(cidx) == UNION {Range(cidx[p].requests) : p \in DOMAIN cidx}

\* C7: under any interleaving of load, save, delete and clear with lookups, a
\* lookup never fails unsafely: when it returns, its result is none or a value
\* that is in collection_index at the moment the lookup reads it.
C7_LookupsDegradeToNone ==
    [][\A t \in Threads :
          (threads[t].pc # "done" /\ threads'[t].pc = "done") =>
              LET r == threads'[t].res
              IN  /\ threads'[t].op = "find_request" =>
                        r = None \/ r[1] \in CachedRequests(collection_index)
                  /\ threads'[t].op = "find_collection" =>
                        r = None \/ r[1] \in Range(collection_index)]_vars

\* a lookup that found its index entry and would have found the request, had
\* another thread not changed collection_index before it was read: not found
C7_Witness ==
    \E t \in Threads :
        /\ threads[t].pc = "done"
        /\ threads[t].op = "find_request"
        /\ threads[t].entry # None
        /\ threads[t].would # None
        /\ threads[t].res = None

----------------------------------------------------------------------------
(* models/request.rs: Request::validate.  A string is atomic in the model:  *)
(* the operations that look inside one are given by what they yield on the  *)
(* strings the requests are made of.                                        *)

\* the whitespace-only strings
Blank == {"", " "}

\* s.trim().is_empty()
trim_is_empty(s) == s \in Blank

\* the urls that begin with a scheme the validation accepts, split after it
SchemeSplit ==
    [u \in {"https://h/x", "https://h/y", "https://h/x2", "https://h/n", "https://",
            "http:///", "http://h", "https:///x", "http://?q"} |->
        CASE u = "https://h/x" -> <<"https://", "h/x">>
          [] u = "https://h/y" -> <<"https://", "h/y">>
          [] u = "https://h/x2" -> <<"https://", "h/x2">>
          [] u = "https://h/n" -> <<"https://", "h/n">>
          [] u = "https://" -> <<"https://", "">>
          [] u = "http:///" -> <<"http://", "/">>
          [] u = "http://h" -> <<"http://", "h">>
          [] u = "https:///x" -> <<"https://", "/x">>
          [] u = "http://?q" -> <<"http://", "?q">>]

\* str::starts_with
starts_with(s, prefix) == s \in DOMAIN SchemeSplit /\ SchemeSplit[s][1] = prefix

\* str::strip_prefix
strip_prefix(s, prefix) == IF starts_with(s, prefix) THEN Some(SchemeSplit[s][2]) ELSE None

\* impl Display for ModelError
ModelErrorText(e) ==
    CASE e[1] = "InvalidUrl" -> "Invalid URL: " \o e[2]
      [] e[1] = "EmptyField" -> "Required field is empty: " \o e[2]

\* Request::validate
validate(r) ==
    IF trim_is_empty(r.name) THEN Err(<<"EmptyField", "name">>)
    ELSE IF trim_is_empty(r.url) THEN Err(<<"EmptyField", "url">>)
    ELSE IF ~starts_with(r.url, "http://") /\ ~starts_with(r.url, "https://")
         THEN Err(<<"InvalidUrl", "URL must start with http:// or https://: " \o r.url>>)
    ELSE LET url_without_scheme ==
                 IF strip_prefix(r.url, "http://") # None
                 THEN strip_prefix(r.url, "http://")[1]
                 ELSE IF strip_prefix(r.url, "https://") # None
                      THEN strip_prefix(r.url, "https://")[1]
                      ELSE r.url
         IN  IF url_without_scheme = "" \/ url_without_scheme = "/"
             THEN Err(<<"InvalidUrl", "URL must contain a domain: " \o r.url>>)
             ELSE Ok(<<>>)

----------------------------------------------------------------------------
(* CollectionManager::validate_and_fix_collection.  The three checks work   *)
(* on s = [collection, issues], the working copy and the issue list.        *)

\* (mutant) the version is filled in whether fixing or not
validate_metadata_always_fix(s, fix_issues) ==
    IF s.collection.metadata.version = None
    THEN [collection |-> [s.collection EXCEPT !.metadata.version = Some("1.0.0")],
          issues |-> Append(s.issues, "Missing version metadata")]
    ELSE s

\* CollectionManager::validate_metadata
validate_metadata(s, fix_issues) ==
    IF s.collection.metadata.version = None
    THEN [collection |-> IF fix_issues
                         THEN [s.collection EXCEPT !.metadata.version = Some("1.0.0")]
                         ELSE s.collection,
          issues |-> Append(s.issues, "Missing version metadata")]
    ELSE s

\* (mutant) duplicates are numbered from 1 instead of by their position
renamed_name_one_based(name, idx) == name \o " (" \o ToString(idx + 1) \o ")"

\* format!("{} ({})", request.name, idx)
renamed_name(name, idx) == name \o " (" \o ToString(idx) \o ")"

\* format!("Duplicate request name '{}' at indices {} and {}", ...)
DuplicateIssue(name, first_idx, idx) ==
    "Duplicate request name '" \o name \o "' at indices " \o ToString(first_idx)
        \o " and " \o ToString(idx)

\* the loop of validate_duplicate_names over requests[1..n]: seen_names,
\* fixed_requests and issues after it
RECURSIVE DuplicateLoop(_, _, _, _)
DuplicateLoop(requests, issues, fix_issues, n) ==
    IF n = 0 THEN [seen_names |-> EmptyMap, fixed_requests |-> <<>>, issues |-> issues]
    ELSE LET s == DuplicateLoop(requests, issues, fix_issues, n - 1)
             request == requests[n]
             idx == n - 1
         IN  IF request.name \in DOMAIN s.seen_names
             THEN [seen_names |-> s.seen_names,
                   fixed_requests |->
                       Append(s.fixed_requests,
                              IF fix_issues
                              THEN [request EXCEPT !.name = renamed_name(request.name, idx)]
                              ELSE request),
                   issues |->
                       Append(s.issues,
                              DuplicateIssue(request.name, s.seen_names[request.name], idx))]
             ELSE [seen_names |-> Insert(s.seen_names, request.name, idx),
                   fixed_requests |-> Append(s.fixed_requests, request),
                   issues |-> s.issues]

\* CollectionManager::validate_duplicate_names
validate_duplicate_names(s, fix_issues) ==
    LET r == DuplicateLoop(s.collection.requests, s.issues, fix_issues,
                           Len(s.collection.requests))
    IN  [collection |-> IF fix_issues /\ r.issues # <<>>
                        THEN [s.collection EXCEPT !.requests = r.fixed_requests]
                        ELSE s.collection,
         issues |-> r.issues]

\* format!("Invalid request '{}': {}", r.name, e)
InvalidIssue(r) == "Invalid request '" \o r.name \o "': " \o ModelErrorText(validate(r).err)

\* the issues the filter of validate_requests pushes, in the order of the requests
RECURSIVE InvalidIssues(_, _)
InvalidIssues(requests, n) ==
    IF n = 0 THEN <<>>
    ELSE IF validate(requests[n]).ok THEN InvalidIssues(requests, n - 1)
    ELSE Append(InvalidIssues(requests, n - 1), InvalidIssue(requests[n]))

\* (mutant) the filter keeps every request
filter_keeps_all(r, fix_issues) == TRUE

\* the closure of the filter in validate_requests
filter_keeps(r, fix_issues) == IF ~validate(r).ok THEN ~fix_issues ELSE TRUE

\* CollectionManager::validate_requests
validate_requests(s, fix_issues) ==
    LET requests == s.collection.requests
        valid_requests == SelectSeq(requests, LAMBDA r : filter_keeps(r, fix_issues))
    IN  [collection |-> IF fix_issues
                        THEN [s.collection EXCEPT !.requests = valid_requests]
                        ELSE s.collection,
         issues |-> s.issues \o InvalidIssues(requests, Len(requests))]

\* CollectionManager::validate_and_fix_collection: (fixed, issues)
validate_and_fix_collection(collection, fix_issues) ==
    LET s0 == [collection |-> collection, issues |-> <<>>]
        s1 == validate_metadata(s0, fix_issues)
        s2 == validate_duplicate_names(s1, fix_issues)
        s3 == validate_requests(s2, fix_issues)
    IN  <<s3.collection, s3.issues>>

\* requests per collection validated
MaxRequests == 3

\* the requests the validated collections are made of
ReqX1 == Req("x (1)", "https://h/y")

ReqBlank == Req(" ", "https://h/n")

ReqNoUrl == Req("n", "")

ReqFtp == Req("y", "ftp://h")

ReqNoDomain == Req("d", "https://")

RequestPool == {ReqX, ReqX2, ReqY, ReqX1, ReqBlank, ReqNoUrl, ReqFtp, ReqNoDomain}

RequestLists == UNION {[1..n -> RequestPool] : n \in 0..MaxRequests}

\* Collection::new("Test") with the requests pushed, with and without a version
FixInputs ==
    {[NewCollection("Test") EXCEPT !.requests = rs, !.metadata.version = v] :
        rs \in RequestLists, v \in {None, Some("1.0.0")}}

\* a caller holds a collection to validate
InitFix ==
    /\ base_path \in BasePaths
    /\ fs = EmptyMap
    /\ collection_index = EmptyMap
    /\ request_index = EmptyMap
    /\ last \in {[op |-> "input", arg |-> c] : c \in FixInputs}
    /\ returned = {}
    /\ nops = 0
    /\ writers = EmptyMap
    /\ renamed = EmptyMap
    /\ threads = EmptyMap
    /\ InitRest

\* validate_and_fix_collection(&collection, fix_issues) is called
Validated(collection, fix_issues) ==
    /\ last' = [op |-> "validate", arg |-> collection, fix |-> fix_issues,
                res |-> validate_and_fix_collection(collection, fix_issues)]
    /\ UNCHANGED <<base_path, fs, index_vars, returned, nops, save_vars, threads, rest_vars>>

\* the caller's collection is validated
ValidateAndFix(fix_issues) ==
    /\ last.op = "input"
    /\ Validated(last.arg, fix_issues)

\* the collection a call returned is validated again
Revalidate(fix_issues) ==
    /\ last.op = "validate"
    /\ Validated(last.res[1], fix_issues)

NextFix ==
    \/ \E fix_issues \in BOOLEAN : ValidateAndFix(fix_issues)
    \/ \E fix_issues \in BOOLEAN : Revalidate(fix_issues)

SpecFix == InitFix /\ [][NextFix]_vars

----------------------------------------------------------------------------
(* Claims about validate_and_fix_collection (SpecFix) *)

\* C14: validate_and_fix_collection(c, false) returns c itself, and validating
\* the returned collection again with fix=false yields the same issue list.
C14_ValidateOnlyIdempotent ==
    (last.op = "validate" /\ ~last.fix) =>
        /\ last.res[1] = last.arg
        /\ validate_and_fix_collection(last.res[1], FALSE)[2] = last.res[2]

\* a collection with a missing version, a duplicate and an invalid request,
\* validated without fixing
C14_Witness ==
    /\ last.op = "validate"
    /\ ~last.fix
    /\ last.arg.metadata.version = None
    /\ Len(last.res[2]) >= 3

\* requests holds exactly one repeated name, at positions i < j (1-based)
ExactlyOneRepeat(requests, i, j) ==
    /\ i < j
    /\ requests[i].name = requests[j].name
    /\ \A k, m \in DOMAIN requests :
          (k < m /\ requests[k].name = requests[m].name) => (k = i /\ m = j)

\* what C15 states of the result of a fix, for the repeat at positions i < j
DuplicateFixed(i, j) ==
    LET name == last.arg.requests[i].name
        fixed == last.res[1].requests
    IN  /\ Len(fixed) = Len(last.arg.requests)
        /\ fixed[i].name = name
        /\ fixed[j].name = name \o " (" \o ToString(j - 1) \o ")"
        /\ last.res[2] = <<"Duplicate request name '" \o name \o "' at indices "
                               \o ToString(i - 1) \o " and " \o ToString(j - 1)>>

\* C15 as stated: for a collection whose requests contain exactly one repeated
\* name, at positions i < j, the fix leaves requests[i].name, sets
\* requests[j].name to "<name> (<j>)" and reports exactly the one issue
\* "Duplicate request name '<name>' at indices <i> and <j>".
C15_Original ==
    (last.op = "validate" /\ last.fix) =>
        \A i, j \in DOMAIN last.arg.requests :
            ExactlyOneRepeat(last.arg.requests, i, j) => DuplicateFixed(i, j)

\* C15 amended: ... for a collection that has a metadata.version, whose
\* requests all pass request validation and contain exactly one repeated name ...
C15_DuplicateFix ==
    (/\ last.op = "validate"
     /\ last.fix
     /\ last.arg.metadata.version # None
     /\ \A k \in DOMAIN last.arg.requests : validate(last.arg.requests[k]).ok) =>
        \A i, j \in DOMAIN last.arg.requests :
            ExactlyOneRepeat(last.arg.requests, i, j) => DuplicateFixed(i, j)

\* a fix of three valid requests, the first unique, the second and third alike
C15_Witness ==
    /\ last.op = "validate"
    /\ last.fix
    /\ last.arg.metadata.version # None
    /\ Len(last.arg.requests) = 3
    /\ \A k \in DOMAIN last.arg.requests : validate(last.arg.requests[k]).ok
    /\ ExactlyOneRepeat(last.arg.requests, 2, 3)
    /\ last.res[1].requests[3].name = "x (2)"

\* the names of requests are pairwise distinct
DistinctNames(requests) ==
    \A k, m \in DOMAIN requests : requests[k].name = requests[m].name => k = m

\* C16: the collection a fix returns has pairwise distinct request names and,
\* validated again with fix=false, yields an empty issue list.
C16_AutoFixRepairs ==
    (last.op = "validate" /\ last.fix) =>
        /\ DistinctNames(last.res[1].requests)
        /\ validate_and_fix_collection(last.res[1], FALSE)[2] = <<>>

\* the requests with every occurrence of a name but the first renamed to
\* "<name> (<position>)", position 0-based
PostRename(requests) ==
    [k \in DOMAIN requests |->
        IF \E m \in 1..(k - 1) : requests[m].name = requests[k].name
        THEN [requests[k] EXCEPT !.name = requests[k].name \o " (" \o ToString(k - 1) \o ")"]
        ELSE requests[k]]

\* C17: with fix=true the result holds exactly the requests that pass request
\* validation under their post-rename names, in their original order, and each
\* of them passes validation; with fix=false no request is dropped.
C17_DropsInvalid ==
    last.op = "validate" =>
        IF last.fix
        THEN /\ last.res[1].requests =
                    SelectSeq(PostRename(last.arg.requests), LAMBDA r : validate(r).ok)
             /\ \A k \in DOMAIN last.res[1].requests : validate(last.res[1].requests[k]).ok
        ELSE last.res[1].requests = last.arg.requests

\* a fix that dropped a request and kept one that was invalid under its
\* original name (blank) and is valid under its new one
C17_Witness ==
    /\ last.op = "validate"
    /\ last.fix
    /\ Len(last.res[1].requests) < Len(last.arg.requests)
    /\ \E k \in DOMAIN last.res[1].requests : last.res[1].requests[k].name = " " \o " (1)"

----------------------------------------------------------------------------
(* The manager's calls that walk the base directory or rewrite a file:      *)
(* scan_collections, load_all_collections, migrate_collection and           *)
(* check_integrity, on a disk that other programs write to as well.         *)

\* constants::COLLECTION_EXT, ".collection.yaml", as the parts after each dot
COLLECTION_EXT == <<"collection", "yaml">>

\* file_name.ends_with(extension), the extension beginning with a dot
ends_with(name, extension) ==
    /\ Len(name) > Len(extension)
    /\ SubSeq(name, Len(name) - Len(extension) + 1, Len(name)) = extension

\* loc lies under the directory at location dir, at any depth
IsUnder(loc, dir) == Len(loc) > Len(dir) /\ SubSeq(loc, 1, Len(dir)) = dir

\* std::fs::read_dir: the entries of the directory at location dir
read_dir(dir) == {SubSeq(l, 1, Len(dir) + 1) : l \in {x \in DOMAIN fs : IsUnder(x, dir)}}

\* (mutant) no entry is taken for a directory: only the top level is listed
is_dir_never(loc) == FALSE

\* Path::is_dir: a directory is there while a file lies under it
is_dir(loc) == \E l \in DOMAIN fs : IsUnder(l, loc)

\* Path::is_file
is_file(loc) == loc \in DOMAIN fs

\* the loop of scan_directory_recursive over the entries of one directory, in
\* one order of read_dir: the files vector, as locations
RECURSIVE ScanEntries(_, _)
ScanEntries(entries, extension) ==
    IF entries = {} THEN <<>>
    ELSE LET entry == CHOOSE e \in entries : TRUE
             found == IF is_dir(entry) THEN ScanEntries(read_dir(entry), extension)
                      ELSE IF is_file(entry) /\ ends_with(Last(entry), extension)
                           THEN <<entry>>
                           ELSE <<>>
         IN  found \o ScanEntries(entries \ {entry}, extension)

\* the vector scan_directory_recursive(dir, extension) returns: each entry is
\* dir joined with the names on the way to the file
scan_files(dir, extension) ==
    LET found == ScanEntries(read_dir(Location(dir)), extension)
    IN  [i \in DOMAIN found |-> dir \o SubSeq(found[i], Len(Location(dir)) + 1, Len(found[i]))]

\* CollectionManager::scan_directory_recursive, as the set of the paths returned
scan_directory_recursive(dir, extension) == Range(scan_files(dir, extension))

\* CollectionManager::scan_collections
scan_collections == scan_directory_recursive(base_path, COLLECTION_EXT)

\* the orders a directory walk may enumerate the files in
Orders(S) ==
    {o \in [1..Cardinality(S) -> S] : \A i, j \in 1..Cardinality(S) : o[i] = o[j] => i = j}

\* (mutant) a path that failed to load is counted too
load_failed_counted(s, r) == [s EXCEPT !.count = @ + 1]

\* load_all_collections, Err(e): the error is logged, the loop continues
load_failed(s, r) == s

\* the loop of load_all_collections over collection_files[1..n]: the two
\* indices and count after it
RECURSIVE LoadEach(_, _)
LoadEach(collection_files, n) ==
    IF n = 0 THEN [cidx |-> collection_index, ridx |-> request_index, count |-> 0]
    ELSE LET s == LoadEach(collection_files, n - 1)
             path == collection_files[n]
             r == store_load_collection(path)
         IN  IF r.ok
             THEN [cidx |-> if_write_ok("collection_index", s.cidx,
                               index_collection(s.cidx, path, r.val)),
                   ridx |-> if_write_ok("request_index", s.ridx,
                               index_requests(s.ridx, path, r.val.requests, Len(r.val.requests))),
                   count |-> s.count + 1]
             ELSE load_failed(s, r)

\* CollectionManager::load_all_collections
LoadAllCollections ==
    /\ nops < MaxOps
    /\ \E collection_files \in Orders(scan_collections) :
          LET s == LoadEach(collection_files, Len(collection_files))
          IN  /\ collection_index' = s.cidx
              /\ request_index' = s.ridx
              /\ last' = [op |-> "load_all", res |-> Ok(s.count)]
    /\ Bump
    /\ UNCHANGED <<base_path, fs, returned>>

\* chrono::Utc::now().to_rfc3339(), at the moments migrate_collection is called
Timestamps == {"t1", "t2"}

\* migrate_collection: the collection with its metadata backfilled
migrated(collection, now) ==
    LET c1 == IF collection.metadata.version = None
              THEN [collection EXCEPT !.metadata.version = Some("1.0.0")]
              ELSE collection
    IN  IF c1.metadata.created_at = None
        THEN [c1 EXCEPT !.metadata.created_at = Some(now), !.metadata.updated_at = Some(now)]
        ELSE c1

\* CollectionManager::migrate_collection
MigrateCollection(path, now) ==
    LET r == store_load_collection(path)
        collection == migrated(r.val, now)
    IN  /\ nops < MaxOps
        /\ IF r.ok
           THEN /\ fs' = save_yaml(fs, collection_file_path(file_stem(path)),
                                   SerializeCollection(collection))
                /\ last' = [op |-> "migrate", path |-> path, res |-> Ok(collection),
                            loaded |-> r.val, scanned |-> scan_collections]
           ELSE /\ UNCHANGED fs
                /\ last' = [op |-> "migrate", path |-> path, res |-> r]
        /\ Bump
        /\ UNCHANGED <<base_path, index_vars, returned>>

RECURSIVE JoinWith(_, _)
JoinWith(strings, sep) ==
    IF Len(strings) = 0 THEN ""
    ELSE IF Len(strings) = 1 THEN strings[1]
    ELSE strings[1] \o sep \o JoinWith(Tail(strings), sep)

\* Path::display
display(p) ==
    IF is_absolute(p)
    THEN "/" \o JoinWith([i \in 1..(Len(p) - 1) |-> JoinWith(p[i + 1], ".")], "/")
    ELSE JoinWith([i \in 1..Len(p) |-> JoinWith(p[i], ".")], "/")

\* #[error(...)] of YAMLStoreError
YAMLStoreErrorText(e) ==
    CASE e[1] = "FileNotFound" -> "File not found: " \o display(e[2])
      [] e[1] = "SerializeError" -> "Failed to serialize YAML"
      [] e[1] = "ReadError" -> "Failed to read file: " \o e[2]

\* (mutant) a failed load is reported as no issue at all
check_integrity_swallowing(path) ==
    LET r == store_load_collection(path)
    IN  IF r.ok THEN validate_and_fix_collection(r.val, FALSE)[2] ELSE <<>>

\* CollectionManager::check_integrity
check_integrity(path) ==
    LET r == store_load_collection(path)
    IN  IF r.ok THEN validate_and_fix_collection(r.val, FALSE)[2]
        ELSE <<"Failed to load collection: " \o YAMLStoreErrorText(r.err)>>

\* a call of check_integrity
CheckIntegrity(path) ==
    /\ nops < MaxOps
    /\ last' = [op |-> "check_integrity", path |-> path, res |-> check_integrity(path)]
    /\ Bump
    /\ UNCHANGED <<base_path, fs, index_vars, returned>>

\* a collection written by an earlier version: a creation time, no update time
CollE == [NewCollection("E") EXCEPT !.requests = <<ReqX, ReqNoUrl>>,
                                    !.metadata = [DefaultMetadata EXCEPT
                                                      !.created_at = Some("t0")]]

\* a file that is no collection document
MalformedDoc == [invalid |-> "yaml"]

\* what other programs write under the base directory
ExternalTexts == {to_string(SerializeCollection(CollE)), to_string(MalformedDoc)}

ExternalLocations ==
    {Location(base_path) \o <<CollectionFileName(<<"f2">>)>>,
     Location(base_path) \o <<<<"sub">>, CollectionFileName(<<"f1">>)>>}

\* std::fs::write by another program (or by a test) into the base directory
ExternalWrite(loc, text) ==
    /\ nops < MaxOps
    /\ fs' = WriteFile(fs, loc, text)
    /\ last' = [op |-> "external"]
    /\ Bump
    /\ UNCHANGED <<base_path, index_vars, returned>>

NextDisk ==
    \/ \E p \in CallPaths : LoadCollection(p)
    \/ \E c \in {CollA, CollB}, f \in Filenames : SaveCollection(c, f)
    \/ \E p \in CallPaths : DeleteCollection(p)
    \/ ClearIndex
    \/ LoadAllCollections
    \/ \E p \in CallPaths, now \in Timestamps : MigrateCollection(p, now)
    \/ \E p \in CallPaths : CheckIntegrity(p)
    \/ \E loc \in ExternalLocations, text \in ExternalTexts : ExternalWrite(loc, text)

SpecDisk == Init /\ [][NextDisk]_vars

----------------------------------------------------------------------------
(* Claims about the calls that walk or rewrite the disk (Spec, SpecDisk) *)

\* the collection files under the base directory that hold a collection document
LoadableLocations ==
    {Location(p) : p \in {q \in scan_collections : from_str(fs[Location(q)]).ok}}

\* collection_index holds exactly the loadable collection files, each with
\* the collection its file holds
RebuiltFromDisk ==
    /\ {Location(k) : k \in DOMAIN collection_index} = LoadableLocations
    /\ \A k \in DOMAIN collection_index :
          collection_index[k] = from_str(fs[Location(k)]).val

\* C11: clear_index empties both indices and changes no file, and a
\* load_all_collections that follows it leaves collection_index holding exactly
\* the loadable collection files present under the base directory.
C11_ClearThenLoadAll ==
    [][/\ (last'.op = "clear" /\ nops' # nops) =>
              /\ collection_index' = EmptyMap
              /\ request_index' = EmptyMap
              /\ fs' = fs
       /\ (last.op = "clear" /\ last'.op = "load_all") => RebuiltFromDisk']_vars

\* the scanned paths that load_collection loads
LoadedPaths == {p \in scan_collections : store_load_collection(p).ok}

\* C12: load_all_collections returns Ok whatever fails to load; every scanned
\* path that loads is in collection_index with its collection, and the count
\* returned is the number of scanned paths that loaded.
C12_LoadAllSkipsFailures ==
    last.op = "load_all" =>
        /\ last.res.ok
        /\ last.res.val = Cardinality(LoadedPaths)
        /\ \A p \in LoadedPaths :
              /\ p \in DOMAIN collection_index
              /\ collection_index[p] = store_load_collection(p).val

\* a batch with a file that loaded and a malformed one that was skipped
C12_Witness ==
    /\ last.op = "load_all"
    /\ last.res.val >= 1
    /\ \E p \in scan_collections :
          /\ ~store_load_collection(p).ok
          /\ store_load_collection(p).err[1] = "SerializeError"

\* C13: load_collection on a path whose resolved location (the path as given
\* if absolute, else base_path joined with it) does not exist returns
\* FileNotFound carrying exactly the resolved path.
C13_NotFoundCarriesResolved ==
    last.op = "load" =>
        LET resolved == IF is_absolute(last.path) THEN last.path
                        ELSE join(base_path, last.path)
        IN  Location(resolved) \notin DOMAIN fs =>
                last.res = Err(<<"FileNotFound", resolved>>)

\* a relative path that is not found under the base directory, which holds
\* another file
C13_Witness ==
    /\ last.op = "load"
    /\ ~is_absolute(last.path)
    /\ Len(last.path) = 1
    /\ ~last.res.ok
    /\ last.res.err = <<"FileNotFound", join(base_path, last.path)>>
    /\ fs # EmptyMap

\* C18: the collection a successful migrate_collection returns has a
\* metadata.version and, if created_at or updated_at was absent in the loaded
\* document, has created_at and updated_at both set to the same current time.
C18_MigrateBackfills ==
    (last.op = "migrate" /\ last.res.ok) =>
        LET m == last.res.val.metadata
        IN  /\ m.version # None
            /\ (last.loaded.metadata.created_at = None
                    \/ last.loaded.metadata.updated_at = None) =>
                  /\ m.created_at # None
                  /\ m.created_at[1] \in Timestamps
                  /\ m.updated_at = m.created_at

\* C19: after a successful migrate_collection(path), load_collection(path)
\* returns the migrated collection and scan_collections finds the same set of
\* files as before the call.
C19_MigrateReplacesFile ==
    (last.op = "migrate" /\ last.res.ok) =>
        /\ store_load_collection(last.path) = Ok(last.res.val)
        /\ scan_collections = last.scanned

\* what check_integrity(path) has to return, given the file at path
IntegrityReported ==
    LET r == store_load_collection(last.path)
    IN  IF r.ok THEN last.res = validate_and_fix_collection(r.val, FALSE)[2]
        ELSE /\ Len(last.res) = 1
             /\ last.res[1] = "Failed to load collection: " \o YAMLStoreErrorText(r.err)

\* C20: check_integrity(path) returns a list of issues in every case: one issue
\* describing the failure when the load fails, the issues of validation with
\* fix=false otherwise; the disk and both indices are as before the call.
C20_CheckIntegrity ==
    /\ [](last.op = "check_integrity" => IntegrityReported)
    /\ [][(last'.op = "check_integrity" /\ nops' # nops) =>
              /\ fs' = fs
              /\ collection_index' = collection_index
              /\ request_index' = request_index]_vars

\* an integrity check of a malformed file, with collections indexed
C20_Witness ==
    /\ last.op = "check_integrity"
    /\ Len(last.res) = 1
    /\ ~store_load_collection(last.path).ok
    /\ store_load_collection(last.path).err[1] = "SerializeError"
    /\ collection_index # EmptyMap

----------------------------------------------------------------------------
(* The file watcher: start_watching, stop_watching, is_watching and the     *)
(* event handler the watcher thread runs for every notify event.            *)

\* the callbacks the callers pass to start_watching
Callbacks == {"cb1", "cb2"}

\* what RecommendedWatcher::new and Watcher::watch may do
WatchOutcomes == {"ok", "new_failed", "watch_failed"}

\* (mutant) a start that fails drops the watcher that is there
after_failed_start_dropped(w) == None

\* an early return of start_watching happens before the watcher field is written
after_failed_start(w) == w

\* start_watching: map_err(..)? on both notify calls, Ok(()) after them
start_result(outcome) ==
    IF outcome = "ok" THEN Ok(<<>>) ELSE Err(<<"ReadError", outcome>>)

\* CollectionManager::start_watching
StartWatching(callback, outcome) ==
    /\ nops < MaxOps
    /\ watcher' = IF ~start_result(outcome).ok THEN after_failed_start(watcher)
                  ELSE IF write_ok("watcher") THEN Some([callback |-> callback])
                  ELSE watcher
    /\ last' = [op |-> "start_watching", res |-> start_result(outcome)]
    /\ nops' = nops + 1
    /\ UNCHANGED <<base_path, fs, index_vars, returned, save_vars, threads,
                   delivered, store, lock_vars>>

\* CollectionManager::stop_watching
StopWatching ==
    /\ nops < MaxOps
    /\ watcher' = IF write_ok("watcher") THEN None ELSE watcher
    /\ last' = [op |-> "stop_watching"]
    /\ nops' = nops + 1
    /\ UNCHANGED <<base_path, fs, index_vars, returned, save_vars, threads,
                   delivered, store, lock_vars>>

\* CollectionManager::is_watching
is_watching == IF read_ok("watcher") THEN watcher # None ELSE FALSE

\* EventKind of notify
EventKinds == {"Create", "Modify", "Remove", "Access"}

\* (mutant) a removal is reported as a modification
change_type_no_delete(kind) ==
    CASE kind = "Create" -> Some("Created")
      [] kind = "Modify" -> Some("Modified")
      [] kind = "Remove" -> Some("Modified")
      [] OTHER -> None

\* handle_file_event: the match on event.kind
change_type_of(kind) ==
    CASE kind = "Create" -> Some("Created")
      [] kind = "Modify" -> Some("Modified")
      [] kind = "Remove" -> Some("Deleted")
      [] OTHER -> None

\* Path::file_name: none for the root
file_name(p) == IF Len(p) = 0 \/ Last(p) = Root THEN None ELSE Some(Last(p))

\* Path::strip_prefix(base).unwrap_or(path)
relative_to(p, base) ==
    IF Len(p) >= Len(base) /\ SubSeq(p, 1, Len(base)) = base
    THEN SubSeq(p, Len(base) + 1, Len(p))
    ELSE p

\* handle_file_event: the loop over the first n paths of the event, the
\* callback invocations it makes
RECURSIVE EventLoop(_, _, _, _)
EventLoop(paths, change_type, base, n) ==
    IF n = 0 THEN <<>>
    ELSE LET path == paths[n]
             before == EventLoop(paths, change_type, base, n - 1)
         IN  IF file_name(path) # None /\ ends_with(file_name(path)[1], COLLECTION_EXT)
             THEN Append(before, <<relative_to(path, base), change_type>>)
             ELSE before

\* CollectionManager::handle_file_event
handle_file_event(event, base) ==
    LET change_type == change_type_of(event.kind)
    IN  IF change_type = None THEN <<>>
        ELSE EventLoop(event.paths, change_type[1], base, Len(event.paths))

\* events are delivered while fewer callback invocations than this were made
MaxDelivered == 2

\* the paths notify reports: collection files in and under the base
\* directory and outside it, another file, a name that is the suffix
\* without its dot, the root
EventPaths ==
    {join(base_path, <<<<"f1", "collection", "yaml">>>>),
     join(base_path, <<<<"sub">>, <<"f2", "collection", "yaml">>>>),
     join(base_path, <<<<"notes", "txt">>>>),
     join(base_path, <<<<"collection", "yaml">>>>),
     Cwd \o <<<<"other">>, <<"f1", "collection", "yaml">>>>,
     <<Root>>}

Events ==
    {[kind |-> k, paths |-> ps] :
        k \in EventKinds, ps \in UNION {[1..n -> EventPaths] : n \in 0..2}}

\* the closure start_watching gives to notify, run for a result of the watcher
Deliver(res) ==
    /\ watcher # None
    /\ Len(delivered) < MaxDelivered
    /\ delivered' = IF res.ok
                    THEN delivered \o handle_file_event(res.val, base_path)
                    ELSE delivered
    /\ last' = [op |-> "event", res |-> res, before |-> delivered]
    /\ UNCHANGED <<base_path, fs, index_vars, returned, nops, save_vars, threads,
                   watcher, store, lock_vars>>

NextWatch ==
    \/ \E cb \in Callbacks, o \in WatchOutcomes : StartWatching(cb, o)
    \/ StopWatching
    \/ \E e \in Events : Deliver(Ok(e))
    \/ Deliver(Err(<<"notify">>))

SpecWatch == Init /\ [][NextWatch]_vars

----------------------------------------------------------------------------
(* Claims about the file watcher (SpecWatch) *)

\* C21: is_watching() is false on a new manager, true right after every
\* successful start_watching, false right after every stop_watching, and once
\* true it stays true until a stop_watching, whatever the sequence of starts
\* (successful or failed) and stops.
C21_WatcherStateMachine ==
    /\ [](/\ nops = 0 => ~is_watching
          /\ (last.op = "start_watching" /\ last.res.ok) => is_watching
          /\ last.op = "stop_watching" => ~is_watching)
    /\ [][(is_watching /\ last'.op # "stop_watching") => is_watching']_vars

\* a start fails while a watcher of an earlier start is running, after a stop
C21_Witness ==
    /\ last.op = "start_watching"
    /\ ~last.res.ok
    /\ is_watching
    /\ nops = 4

\* the paths of an event that name a collection file, in the event's order
CollectionPaths(paths) ==
    SelectSeq(paths, LAMBDA p : file_name(p) # None /\ ends_with(file_name(p)[1], COLLECTION_EXT))

\* the change type the callback is to be given for an event kind
TypeOfKind == [Create |-> "Created", Modify |-> "Modified", Remove |-> "Deleted"]

\* the callback invocations an event asks for
ExpectedCalls(event) ==
    IF event.kind \notin DOMAIN TypeOfKind THEN <<>>
    ELSE [i \in 1..Len(CollectionPaths(event.paths)) |->
             <<relative_to(CollectionPaths(event.paths)[i], base_path), TypeOfKind[event.kind]>>]

\* C22: an event delivered to the watcher invokes the callback once for each
\* of its paths whose file name ends with ".collection.yaml", in the order of
\* the paths, with Created, Modified or Deleted for a create, modify or remove
\* event; an event of another kind, an error of the watcher and a path without
\* the suffix invoke nothing.
C22_CallbackPerMatchingPath ==
    last.op = "event" =>
        delivered = last.before \o (IF last.res.ok THEN ExpectedCalls(last.res.val) ELSE <<>>)

\* a remove event with a collection file and another file, after an earlier callback
C22_Witness ==
    /\ last.op = "event"
    /\ last.res.ok
    /\ last.res.val.kind = "Remove"
    /\ Len(last.res.val.paths) = 2
    /\ Len(last.before) = 1
    /\ Len(delivered) = 2

----------------------------------------------------------------------------
(* storage/request_store.rs: the named request store.  A call is one        *)
(* critical section under the store's write or read lock; each operator     *)
(* gives the call's result and the map afterwards.                          *)

\* (mutant) an add under a name that is taken replaces the request
add_request_overwriting(st, name, request) ==
    IF trim_is_empty(name)
    THEN [res |-> Err("Request name cannot be empty"), store |-> st]
    ELSE [res |-> Ok(<<>>), store |-> Insert(st, name, request)]

\* RequestStore::add_request
add_request(st, name, request) ==
    IF trim_is_empty(name)
    THEN [res |-> Err("Request name cannot be empty"), store |-> st]
    ELSE IF name \in DOMAIN st
    THEN [res |-> Err("Request with name '" \o name \o "' already exists"), store |-> st]
    ELSE [res |-> Ok(<<>>), store |-> Insert(st, name, request)]

\* (mutant) an update of a missing name inserts it
update_request_upsert(st, name, request) ==
    [res |-> Ok(<<>>), store |-> Insert(st, name, request)]

\* RequestStore::update_request
update_request(st, name, request) ==
    IF name \notin DOMAIN st
    THEN [res |-> Err("Request with name '" \o name \o "' not found"), store |-> st]
    ELSE [res |-> Ok(<<>>), store |-> Insert(st, name, request)]

\* RequestStore::delete_request
delete_request(st, name) ==
    IF name \notin DOMAIN st
    THEN [res |-> Err("Request with name '" \o name \o "' not found"), store |-> st]
    ELSE [res |-> Ok(<<>>), store |-> Remove(st, name)]

\* RequestStore::get_request
get_request(st, name) == IF name \in DOMAIN st THEN Some(st[name]) ELSE None

\* RequestStore::len
len(st) == Cardinality(DOMAIN st)

\* the names and requests the callers pass
StoreNames == {"", " ", "x", "y"}

StoreRequests == {ReqX, ReqX2, ReqY}

\* a call of the store that returns r: the map is replaced, the call recorded
StoreCall(call, r) ==
    /\ nops < MaxOps
    /\ store' = r.store
    /\ last' = [op |-> call[1], name |-> call[2], arg |-> call[3], res |-> r.res,
                before |-> store]
    /\ nops' = nops + 1
    /\ UNCHANGED <<base_path, fs, index_vars, returned, save_vars, threads,
                   watch_vars, lock_vars>>

AddRequest(name, request) ==
    StoreCall(<<"add", name, request>>, add_request(store, name, request))

UpdateRequest(name, request) ==
    StoreCall(<<"update", name, request>>, update_request(store, name, request))

DeleteRequest(name) ==
    StoreCall(<<"delete", name, None>>, delete_request(store, name))

\* RequestStore::clear
Clear == StoreCall(<<"clear", "", None>>, [res |-> Ok(<<>>), store |-> EmptyMap])

NextStore ==
    \/ \E n \in StoreNames, r \in StoreRequests : AddRequest(n, r)
    \/ \E n \in StoreNames, r \in StoreRequests : UpdateRequest(n, r)
    \/ \E n \in StoreNames : DeleteRequest(n)
    \/ Clear

SpecStore == Init /\ [][NextStore]_vars

----------------------------------------------------------------------------
(* Claims about the named request store (SpecStore) *)

\* C23: add(name, request) fails when the name is empty or blank or is
\* already a key, and then leaves the store as it was; otherwise it succeeds,
\* get(name) returns the added request and len() has grown by 1.
C23_AddRejectsBlankAndTaken ==
    last.op = "add" =>
        IF trim_is_empty(last.name) \/ last.name \in DOMAIN last.before
        THEN ~last.res.ok /\ store = last.before
        ELSE /\ last.res.ok
             /\ get_request(store, last.name) = Some(last.arg)
             /\ len(store) = len(last.before) + 1
             /\ \A n \in DOMAIN last.before : store[n] = last.before[n]

\* an add under a taken name, with another request than the stored one
C23_Witness ==
    /\ last.op = "add"
    /\ last.name \in DOMAIN last.before
    /\ last.before[last.name] # last.arg
    /\ ~last.res.ok

\* C24: update(name, request) and delete(name) fail when the name is not a
\* key, and then leave the store as it was; a successful update replaces the
\* value under the name only, a successful delete removes that key only.
C24_UpdateDeleteNeedKey ==
    last.op \in {"update", "delete"} =>
        IF last.name \notin DOMAIN last.before
        THEN ~last.res.ok /\ store = last.before
        ELSE /\ last.res.ok
             /\ \A n \in DOMAIN last.before \ {last.name} :
                    n \in DOMAIN store /\ store[n] = last.before[n]
             /\ IF last.op = "update"
                THEN DOMAIN store = DOMAIN last.before /\ store[last.name] = last.arg
                ELSE DOMAIN store = DOMAIN last.before \ {last.name}

\* an update of a missing name while the store holds another request
C24_Witness ==
    /\ last.op = "update"
    /\ last.name \notin DOMAIN last.before
    /\ ~trim_is_empty(last.name)
    /\ len(store) = 1
    /\ ~last.res.ok

----------------------------------------------------------------------------
(* The manager's calls on locks that a panic has poisoned.  A thread that   *)
(* panics while it holds the write guard of an RwLock poisons it: every     *)
(* later read() and write() of that lock returns Err.                       *)

\* a thread panics inside a critical section of the lock
Panic(lock) ==
    /\ nops < MaxOps
    /\ lock \notin poisoned
    /\ poisoned' = poisoned \cup {lock}
    /\ last' = [op |-> "panic", lock |-> lock]
    /\ nops' = nops + 1
    /\ UNCHANGED <<base_path, fs, index_vars, returned, save_vars, threads,
                   watch_vars, store, locks>>

\* a call that reads the manager and returns res
Query(op, res) ==
    /\ nops < MaxOps
    /\ last' = [op |-> op, res |-> res]
    /\ Bump
    /\ UNCHANGED <<base_path, fs, index_vars, returned>>

\* CollectionManager::find_collection_by_name
FindCollection(name) ==
    \E r \in (IF read_ok("collection_index")
               THEN find_collection_by_name(collection_index, name)
               ELSE {None}) :
        Query("find_collection", r)

\* CollectionManager::get_all_collections: the collections, in the map's order
get_all_collections ==
    IF read_ok("collection_index")
    THEN {collection_index[p] : p \in DOMAIN collection_index}
    ELSE {}

GetAllCollections == Query("get_all", get_all_collections)

\* CollectionManager::collection_count under its read lock
CollectionCount ==
    Query("count", IF read_ok("collection_index") THEN collection_count ELSE 0)

IsWatching == Query("is_watching", is_watching)

NextPoison ==
    \/ \E l \in LockNames : Panic(l)
    \/ \E p \in PathsOf(<<"f1">>) : LoadCollection(p)
    \/ SaveCollection(CollA, <<"f1">>)
    \/ \E p \in PathsOf(<<"f1">>) : DeleteCollection(p)
    \/ ClearIndex
    \/ \E n \in RequestNames : FindRequest(n)
    \/ \E n \in CollectionNames : FindCollection(n)
    \/ GetAllCollections
    \/ CollectionCount
    \/ StartWatching("cb1", "ok")
    \/ StopWatching
    \/ IsWatching

SpecPoison == Init /\ [][NextPoison]_vars

----------------------------------------------------------------------------
(* Claims about poisoned locks (SpecPoison) *)

\* the locks a call takes
LocksOf ==
    [load |-> {"collection_index", "request_index"},
     save |-> {"collection_index", "request_index"},
     delete |-> {"collection_index"},
     clear |-> {"collection_index", "request_index"},
     find_request |-> {"request_index"},
     find_collection |-> {"collection_index"},
     get_all |-> {"collection_index"},
     count |-> {"collection_index"},
     start_watching |-> {"watcher"},
     stop_watching |-> {"watcher"},
     is_watching |-> {"watcher"}]

\* the calls whose return type can carry an error
Fallible == {"load", "save", "delete", "start_watching"}

\* C25: a call that needs a poisoned lock returns an error to its caller: it
\* does not return success, nothing, an empty list, zero, false or "not found".
C25_PoisonSurfaces ==
    (last.op \in DOMAIN LocksOf /\ LocksOf[last.op] \cap poisoned # {}) =>
        (last.op \in Fallible /\ ~last.res.ok)

----------------------------------------------------------------------------
(* save_collection with the file names callers may pass: usual names, the   *)
(* empty and a blank name, names with '/' and with a backslash.             *)

\* the names with a backslash (an ordinary character of a Unix file name)
Backslashed == {"a\\b"}

SaveNames == {<<"f1">>, <<"">>, <<" ">>, <<"../evil">>, <<"a/b">>, <<"a\\b">>}

NextName ==
    \/ \E c \in {CollA, CollB}, f \in SaveNames : SaveCollection(c, f)
    \/ \E p \in returned : LoadCollection(p)
    \/ \E p \in returned : DeleteCollection(p)
    \/ ClearIndex

SpecName == Init /\ [][NextName]_vars

----------------------------------------------------------------------------
(* Claims about file names (SpecName) *)

\* filename.contains('/') || filename.contains('\\')
contains_separator(s) == s \in DOMAIN Separated \/ s \in Backslashed

\* the paths save_collection computes for an empty or blank file name or one
\* with a path separator
RejectedPaths ==
    {collection_file_path(f) :
        f \in {g \in SaveNames : trim_is_empty(g[1]) \/ contains_separator(g[1])}}

\* C26: save_collection with an empty or whitespace-only file name, or one
\* that contains '/' or a backslash, returns an error, writes no file and
\* changes no index; every file a save creates lies in the base directory.
C26_SaveRejectsBadFilename ==
    [][(last'.op = "save" /\ nops' # nops) =>
           /\ last'.path \in RejectedPaths =>
                  (~last'.res.ok /\ fs' = fs /\ collection_index' = collection_index
                                /\ request_index' = request_index)
           /\ \A l \in DOMAIN fs' \ DOMAIN fs : IsUnder(l, Location(base_path))]_vars

----------------------------------------------------------------------------
(* Request files: YAMLStore::save_request and load_request, next to the     *)
(* manager's save_collection and load_collection.                           *)

\* serde_yaml::from_str::<Request>
from_str_request(text) ==
    IF IsCompleteText(text) /\ RequestDocOk(text[1][1])
    THEN Ok(DeserializeRequest(text[1][1]))
    ELSE Err(<<"SerializeError">>)

\* (mutant) the loaded request is returned as it was parsed
load_request_unvalidated(file_path) ==
    LET full_path == resolve_path(file_path)
    IN  IF ~exists(full_path) THEN Err(<<"FileNotFound", full_path>>)
        ELSE from_str_request(fs[Location(full_path)])

\* YAMLStore::load_request
load_request(file_path) ==
    LET full_path == resolve_path(file_path)
    IN  IF ~exists(full_path) THEN Err(<<"FileNotFound", full_path>>)
        ELSE LET r == from_str_request(fs[Location(full_path)])
             IN  IF ~r.ok THEN r
                 ELSE IF ~validate(r.val).ok
                      THEN Err(<<"ValidationError", ModelErrorText(validate(r.val).err)>>)
                      ELSE r

\* a call of YAMLStore::save_request
SaveRequest(request, filename) ==
    LET file_path == request_file_path(filename)
    IN  /\ nops < MaxOps
        /\ fs' = save_yaml(fs, file_path, SerializeRequest(request))
        /\ last' = [op |-> "save_request", path |-> file_path, res |-> Ok(file_path),
                    arg |-> request]
        /\ Bump
        /\ UNCHANGED <<base_path, index_vars, returned>>

\* a call of YAMLStore::load_request
LoadRequest(file_path) ==
    /\ nops < MaxOps
    /\ last' = [op |-> "load_request", path |-> file_path, res |-> load_request(file_path)]
    /\ Bump
    /\ UNCHANGED <<base_path, fs, index_vars, returned>>

\* the requests saved: a valid one and three that fail validation
SavedRequests == {ReqX, ReqNoUrl, ReqFtp, ReqBlank}

\* the paths given to load_request: the path save_request returns
RequestPaths == {request_file_path(f) : f \in Filenames}

NextReq ==
    \/ \E r \in SavedRequests, f \in Filenames : SaveRequest(r, f)
    \/ \E p \in RequestPaths : LoadRequest(p)
    \/ \E p \in RequestPaths : ExternalWrite(Location(p), to_string(MalformedDoc))
    \/ \E c \in {CollA, CollE} : SaveCollection(c, <<"f1">>)
    \/ \E p \in PathsOf(<<"f1">>) : LoadCollection(p)
    \/ ClearIndex

SpecReq == Init /\ [][NextReq]_vars

----------------------------------------------------------------------------
(* Claims about request files (SpecReq) *)

\* the request a file holds, when it holds a well-formed request document
StoredRequest(file_path) == from_str_request(fs[Location(resolve_path(file_path))])

----------------------------------------------------------------------------
(* scan_collections and scan_requests over a directory tree that the store  *)
(* and other programs fill.                                                 *)

\* constants::REQUEST_EXT, ".request.yaml"
REQUEST_EXT == <<"request", "yaml">>

\* CollectionManager::scan_requests
scan_requests == scan_files(base_path, REQUEST_EXT)

ScanCollections == Query("scan_collections", Ok(scan_files(base_path, COLLECTION_EXT)))

ScanRequests == Query("scan_requests", Ok(scan_requests))

\* where other programs put files: collection and request files at three
\* depths, a file in a directory named like a collection file, a file named
\* by the suffix without its dot, a temporary file, a file outside base_path
ScanLocations ==
    {Location(base_path) \o <<<<"sub">>, CollectionFileName(<<"f2">>)>>,
     Location(base_path) \o <<<<"sub">>, <<"deep">>, CollectionFileName(<<"f3">>)>>,
     Location(base_path) \o <<<<"sub">>, <<"deep">>, RequestFileName(<<"r3">>)>>,
     Location(base_path) \o <<CollectionFileName(<<"d">>), <<"notes", "txt">>>>,
     Location(base_path) \o <<<<"sub">>, <<"collection", "yaml">>>>,
     Location(base_path) \o <<<<"f1", "collection", "yaml", "tmp">>>>,
     Cwd \o <<<<"other">>, CollectionFileName(<<"f9">>)>>}

NextScan ==
    \/ \E l \in ScanLocations : ExternalWrite(l, to_string(MalformedDoc))
    \/ SaveCollection(CollA, <<"f1">>)
    \/ SaveRequest(ReqX, <<"f1">>)
    \/ \E p \in returned : DeleteCollection(p)
    \/ ScanCollections
    \/ ScanRequests

SpecScan == Init /\ [][NextScan]_vars

----------------------------------------------------------------------------
(* Claims about scanning (SpecScan) *)

\* the files at any depth under base_path whose name ends with the suffix
FilesWithSuffix(extension) ==
    {l \in DOMAIN fs : IsUnder(l, Location(base_path)) /\ ends_with(Last(l), extension)}

\* the paths of a scan name exactly the files with the suffix, each once
ScansExactly(paths, extension) ==
    /\ {Location(paths[i]) : i \in DOMAIN paths} = FilesWithSuffix(extension)
    /\ \A i, j \in DOMAIN paths : Location(paths[i]) = Location(paths[j]) => i = j

\* C28: scan_collections returns exactly the files, at any depth under
\* base_path, whose name ends with ".collection.yaml", each once, and
\* scan_requests those whose name ends with ".request.yaml"; no directory and
\* no file with another name is returned.
C28_ScanExact ==
    /\ last.op = "scan_collections" => (last.res.ok /\ ScansExactly(last.res.val, COLLECTION_EXT))
    /\ last.op = "scan_requests" => (last.res.ok /\ ScansExactly(last.res.val, REQUEST_EXT))

\* a scan finds a file two directories down and one at the top, and passes
\* over other files under base_path
C28_Witness ==
    /\ last.op = "scan_collections"
    /\ Len(last.res.val) >= 2
    /\ \E i \in DOMAIN last.res.val : Len(last.res.val[i]) = Len(base_path) + 3
    /\ \E l \in DOMAIN fs :
           IsUnder(l, Location(base_path)) /\ ~ends_with(Last(l), COLLECTION_EXT)

----------------------------------------------------------------------------
(* Request::validate on the requests a caller may build *)

ValidatedNames == {"", " ", "x"}

\* urls: empty, blank, without scheme, with another scheme, with the scheme
\* only, with an empty authority before a path or a query, with a host
ValidatedUrls ==
    {"", " ", "h/x", "ftp://h", "https://", "http:///", "https:///x", "http://?q",
     "http://h", "https://h/x"}

ValidatedRequests ==
    {[Req(n, u) EXCEPT !.method = m] :
        n \in ValidatedNames, u \in ValidatedUrls, m \in {"Get", "Post"}}

\* a caller holds a request
InitValidate ==
    /\ base_path \in {BaseAbs}
    /\ fs = EmptyMap
    /\ collection_index = EmptyMap
    /\ request_index = EmptyMap
    /\ last \in {[op |-> "request", arg |-> r] : r \in ValidatedRequests}
    /\ returned = {}
    /\ nops = 0
    /\ writers = EmptyMap
    /\ renamed = EmptyMap
    /\ threads = EmptyMap
    /\ InitRest

\* request.validate() is called
ValidateRequest ==
    /\ last.op = "request"
    /\ last' = [op |-> "validated", arg |-> last.arg, res |-> validate(last.arg)]
    /\ UNCHANGED <<base_path, fs, index_vars, returned, nops, save_vars, threads, rest_vars>>

\* the caller changes the method and validates again
WithMethod(m) ==
    /\ last.op = "validated"
    /\ last.arg.method # m
    /\ last' = [op |-> "request", arg |-> [last.arg EXCEPT !.method = m]]
    /\ UNCHANGED <<base_path, fs, index_vars, returned, nops, save_vars, threads, rest_vars>>

NextValidate ==
    \/ ValidateRequest
    \/ \E m \in {"Get", "Post"} : WithMethod(m)

SpecValidate == InitValidate /\ [][NextValidate]_vars

----------------------------------------------------------------------------
(* Claims about Request::validate (SpecValidate) *)

\* the authority component of the http(s) urls: what lies between the scheme
\* and the first '/', '?' or '#'
Authority ==
    [u \in {"https://", "http:///", "https:///x", "http://?q", "http://h", "https://h/x"} |->
        IF u \in {"http://h", "https://h/x"} THEN "h" ELSE ""]

\* the request invariants of the specification
MeetsInvariants(r) ==
    /\ ~trim_is_empty(r.name)
    /\ r.url # ""
    /\ r.url \in DOMAIN Authority
    /\ Authority[r.url] # ""

\* C29: validate accepts a request exactly when its name is non-empty after
\* trimming and its url is non-empty, begins with http:// or https:// and has
\* a non-empty authority after the scheme; for a named request an empty url
\* is rejected with the error of the empty field "url", a url without an
\* http(s) prefix with the error about the scheme.
C29_ValidateIffInvariants ==
    last.op = "validated" =>
        /\ last.res.ok <=> MeetsInvariants(last.arg)
        /\ (~trim_is_empty(last.arg.name) /\ last.arg.url = "") =>
               (~last.res.ok /\ last.res.err = <<"EmptyField", "url">>)
        /\ (~trim_is_empty(last.arg.name) /\ ~trim_is_empty(last.arg.url)
                /\ last.arg.url \notin DOMAIN Authority) =>
               (/\ ~last.res.ok
                /\ last.res.err =
                       <<"InvalidUrl", "URL must start with http:// or https://: " \o last.arg.url>>)

----------------------------------------------------------------------------
(* The locks of the manager, taken and released by threads that call it     *)
(* concurrently.  Each call is the sequence of the lock operations of its   *)
(* code; a guard is released where it goes out of scope.                    *)

LockThreads == {"t1", "t2", "t3"}

\* (mutant) add_to_index keeps collection_index locked while it locks request_index
add_to_index_nested ==
    <<<<"write", "collection_index">>, <<"write", "request_index">>,
      <<"unlock", "request_index">>, <<"unlock", "collection_index">>>>

\* add_to_index: each write guard lives in its own if-let block
add_to_index_locks ==
    <<<<"write", "collection_index">>, <<"unlock", "collection_index">>,
      <<"write", "request_index">>, <<"unlock", "request_index">>>>

\* the lock operations of each call.  load_collection takes no lock when the
\* store fails; find_request_by_name returns after request_index when the
\* name is no key, and else reads collection_index with request_index held.
LockSteps ==
    [load_collection |-> add_to_index_locks,
     load_collection_err |-> <<>>,
     save_collection |-> add_to_index_locks,
     delete_collection |-> <<<<"write", "collection_index">>, <<"unlock", "collection_index">>>>,
     clear_index |-> <<<<"write", "collection_index">>, <<"unlock", "collection_index">>,
                       <<"write", "request_index">>, <<"unlock", "request_index">>>>,
     find_request_by_name_none |-> <<<<"read", "request_index">>, <<"unlock", "request_index">>>>,
     find_request_by_name |-> <<<<"read", "request_index">>, <<"read", "collection_index">>,
                                <<"unlock", "collection_index">>, <<"unlock", "request_index">>>>,
     find_collection_by_name |-> <<<<"read", "collection_index">>, <<"unlock", "collection_index">>>>,
     get_all_collections |-> <<<<"read", "collection_index">>, <<"unlock", "collection_index">>>>,
     start_watching |-> <<<<"write", "watcher">>, <<"unlock", "watcher">>>>,
     stop_watching |-> <<<<"write", "watcher">>, <<"unlock", "watcher">>>>]

\* a thread outside the manager
Outside == [op |-> "idle", at |-> 0]

Busy(t) == threads[t].op # "idle"

\* the lock operation thread t is at: none when it is outside or past its last one
Instruction(t) ==
    IF Busy(t) /\ threads[t].at <= Len(LockSteps[threads[t].op])
    THEN Some(LockSteps[threads[t].op][threads[t].at])
    ELSE None

\* thread t stands before the lock operation kind of the lock
At(t, kind, lock) == Instruction(t) = Some(<<kind, lock>>)

\* RwLock::write is granted: nobody holds the lock
WriteFree(lock) == locks[lock].writer = None /\ locks[lock].readers = {}

\* RwLock::read is granted: no writer holds the lock and, under a policy that
\* puts writers first, none waits for it
ReadFree(lock) ==
    /\ locks[lock].writer = None
    /\ locks[lock].writers_first =>
           ~\E u \in LockThreads : At(u, "write", lock) /\ ~WriteFree(lock)

Advance(t) == threads' = [threads EXCEPT ![t].at = @ + 1]

LockFrame ==
    UNCHANGED <<base_path, fs, index_vars, last, returned, save_vars, watch_vars, store,
                poisoned>>

\* a thread calls the manager
Call(t, op) ==
    /\ ~Busy(t)
    /\ nops < MaxCalls
    /\ threads' = [threads EXCEPT ![t] = [op |-> op, at |-> 1]]
    /\ nops' = nops + 1
    /\ UNCHANGED locks
    /\ LockFrame

AcquireWrite(t, lock) ==
    /\ At(t, "write", lock)
    /\ WriteFree(lock)
    /\ locks' = [locks EXCEPT ![lock].writer = Some(t)]
    /\ Advance(t)
    /\ UNCHANGED nops
    /\ LockFrame

AcquireRead(t, lock) ==
    /\ At(t, "read", lock)
    /\ ReadFree(lock)
    /\ locks' = [locks EXCEPT ![lock].readers = @ \cup {t}]
    /\ Advance(t)
    /\ UNCHANGED nops
    /\ LockFrame

\* the guard of thread t on the lock is dropped
Unlock(t, lock) ==
    /\ At(t, "unlock", lock)
    /\ locks' = [locks EXCEPT ![lock].writer = IF @ = Some(t) THEN None ELSE @,
                              ![lock].readers = @ \ {t}]
    /\ Advance(t)
    /\ UNCHANGED nops
    /\ LockFrame

\* the call of thread t returns
ReturnCall(t) ==
    /\ Busy(t)
    /\ Instruction(t) = None
    /\ threads' = [threads EXCEPT ![t] = Outside]
    /\ UNCHANGED <<locks, nops>>
    /\ LockFrame

\* the next step of thread t inside its call
Proceed(t) ==
    \/ \E l \in LockNames : AcquireWrite(t, l)
    \/ \E l \in LockNames : AcquireRead(t, l)
    \/ \E l \in LockNames : Unlock(t, l)
    \/ ReturnCall(t)

InitLock ==
    /\ base_path \in {BaseAbs}
    /\ fs = EmptyMap
    /\ collection_index = EmptyMap
    /\ request_index = EmptyMap
    /\ last = [op |-> "new"]
    /\ returned = {}
    /\ nops = 0
    /\ writers = EmptyMap
    /\ renamed = EmptyMap
    /\ threads = [t \in LockThreads |-> Outside]
    /\ watcher = None
    /\ delivered = <<>>
    /\ store = EmptyMap
    /\ locks \in {[l \in LockNames |-> [FreeLock EXCEPT !.writers_first = b]] : b \in BOOLEAN}
    /\ poisoned = {}

NextLock ==
    \/ \E t \in LockThreads, op \in DOMAIN LockSteps : Call(t, op)
    \/ \E t \in LockThreads : Proceed(t)

\* a thread inside a call is scheduled as long as it can take its next step
SpecLock == InitLock /\ [][NextLock]_vars /\ \A t \in LockThreads : WF_vars(Proceed(t))

----------------------------------------------------------------------------
(* Claims about the locks (SpecLock) *)

\* thread t can take its next step now
CanProceed(t) ==
    /\ Busy(t)
    /\ \/ Instruction(t) = None
       \/ \E l \in LockNames :
              \/ At(t, "unlock", l)
              \/ At(t, "write", l) /\ WriteFree(l)
              \/ At(t, "read", l) /\ ReadFree(l)

\* C30: under every interleaving of concurrent calls of one manager no set
\* of threads waits for each other: while a thread is inside a call some
\* thread inside a call can take a step, and every call returns.
C30_DeadlockFree ==
    /\ []((\E t \in LockThreads : Busy(t)) => \E t \in LockThreads : CanProceed(t))
    /\ \A t \in LockThreads : Busy(t) ~> ~Busy(t)

\* find_request_by_name holds request_index and waits for collection_index,
\* which a writer holds, while another writer waits for request_index
C30_Witness ==
    \E t, u, v \in LockThreads :
        /\ At(t, "read", "collection_index")
        /\ t \in locks["request_index"].readers
        /\ locks["collection_index"].writer = Some(u)
        /\ At(v, "write", "request_index")
        /\ ~CanProceed(t)
        /\ ~CanProceed(v)

----------------------------------------------------------------------------
(* Claims about the request index over sequences of calls (Spec) *)

\* C31: a request that find_request_by_name(n) returns is named n, after any
\* sequence of load_collection, save_collection, delete_collection and
\* clear_index.
C31_FoundRequestIsNamed ==
    (last.op = "find_request" /\ last.res # None) => last.res[1].name = last.name

\* C32: while a collection in collection_index holds a request named n,
\* find_request_by_name(n) returns a request.
C32_CachedRequestIsFound ==
    (last.op = "find_request"
        /\ \E p \in DOMAIN collection_index : last.name \in NamesOf(collection_index[p]))
    => last.res # None

\* C33: a path save_collection returned resolves, in load_collection and in
\* delete_collection, to the file save_collection wrote, for an absolute and
\* for a relative base_path.
C33_ReturnedPathResolves ==
    (last.op \in {"load", "delete"} /\ last.path \in returned)
    => Location(resolve_path(last.path)) = Location(last.path)

\* C34: after a successful delete_collection(path) no key of collection_index
\* refers to the deleted file, whichever spelling of the file's path the
\* earlier load_collection and save_collection calls and the delete used.
C34_DeletedFileNotIndexed ==
    (last.op = "delete" /\ last.res.ok)
    => \A p \in DOMAIN collection_index :
           Location(resolve_path(p)) # Location(resolve_path(last.path))

----------------------------------------------------------------------------
(* commands/collections.rs: the delete_collection command *)

\* the symbolic links on the disk: a link in the base directory to a
\* directory beside it
Links == (Location(base_path) \o <<<<"link">>>>) :> (Cwd \o <<<<"outside">>>>)

\* files other programs keep outside the base directory
OutsideLocations ==
    {Cwd \o <<CollectionFileName(<<"f1">>)>>,
     Cwd \o <<<<"outside">>, CollectionFileName(<<"f1">>)>>}

\* something is at location loc of the disk: a file, a directory holding a
\* file, the base directory (YAMLStore::new creates it) or one of its parents
Present(disk, loc) ==
    \/ loc \in DOMAIN disk
    \/ \E l \in DOMAIN disk : IsUnder(l, loc)
    \/ \E n \in 1..Len(Location(base_path)) : loc = SubSeq(Location(base_path), 1, n)

\* the first n components resolved as the operating system does: ".." leaves
\* the directory reached so far, a link is followed, and every component
\* must be there
RECURSIVE Canonical(_, _, _)
Canonical(disk, full, n) ==
    IF n = 1 THEN Some(<<Root>>)
    ELSE LET before == Canonical(disk, full, n - 1)
         IN  IF before = None THEN None
             ELSE IF full[n] = ParentDir
             THEN IF Len(before[1]) > 1 THEN Some(Front(before[1])) ELSE before
             ELSE LET entry  == Append(before[1], full[n])
                      target == IF entry \in DOMAIN Links THEN Links[entry] ELSE entry
                  IN  IF Present(disk, target) THEN Some(target) ELSE None

\* Path::canonicalize: a relative path starts at the working directory
canonicalize(disk, p) ==
    LET full == IF is_absolute(p) THEN p ELSE Cwd \o Interior(p)
    IN  Canonical(disk, full, Len(full))

\* (mutant) every path counts as lying in the base directory
path_starts_with_anything(p, base) == TRUE

\* Path::starts_with: base is a prefix of p, component by component
path_starts_with(p, base) == Len(p) >= Len(base) /\ SubSeq(p, 1, Len(base)) = base

\* validate_path_in_collections
validate_path_in_collections(disk, path, base) ==
    LET canonical_path == canonicalize(disk, path)
        canonical_base == canonicalize(disk, base)
    IN  IF canonical_path = None THEN Err(<<"Invalid path">>)
        ELSE IF canonical_base = None THEN Err(<<"Invalid base path">>)
        ELSE IF ~path_starts_with(canonical_path[1], canonical_base[1])
        THEN Err(<<"Access denied: path outside collections directory">>)
        ELSE Ok(canonical_path[1])

\* the paths the frontend passes to the delete_collection command
CommandPaths ==
    {collection_file_path(f) : f \in Filenames}
        \cup {<<CollectionFileName(<<"f1">>)>>,
              BaseAbs \o <<CollectionFileName(<<"f1">>)>>,
              base_path \o <<ParentDir, CollectionFileName(<<"f1">>)>>,
              base_path \o <<<<"link">>, CollectionFileName(<<"f1">>)>>,
              base_path \o <<<<"link">>, ParentDir, <<"collections">>,
                             CollectionFileName(<<"f1">>)>>}

\* the delete_collection command
DeleteCollectionCommand(path) ==
    LET validated_path == validate_path_in_collections(fs, path, base_path)
        deleted == delete_file_result(validated_path.val)
    IN  /\ nops < MaxOps
        /\ IF validated_path.ok
           THEN /\ collection_index' = if_write_ok("collection_index", collection_index,
                       delete_from_index(collection_index, validated_path.val))
                /\ fs' = delete_file_disk(validated_path.val)
           ELSE UNCHANGED <<collection_index, fs>>
        /\ last' = [op |-> "delete_command", path |-> path,
                    res |-> IF ~validated_path.ok THEN validated_path
                            ELSE IF deleted.ok THEN deleted
                            ELSE Err(<<"Failed to delete collection", deleted.err>>),
                    before |-> collection_index, disk |-> fs]
        /\ Bump
        /\ UNCHANGED <<base_path, request_index, returned>>

NextCmd ==
    \/ \E c \in {CollA, CollB}, f \in Filenames : SaveCollection(c, f)
    \/ \E l \in OutsideLocations : ExternalWrite(l, to_string(SerializeCollection(CollA)))
    \/ \E p \in CommandPaths : DeleteCollectionCommand(p)

SpecCmd == Init /\ [][NextCmd]_vars

----------------------------------------------------------------------------
(* Claims about the delete_collection command (SpecCmd) *)

\* C35: the delete_collection command removes no file outside the base
\* directory: either the canonicalized path lies in the canonicalized base
\* directory, or the command returns an error and removes no file and no
\* index entry.
C35_DeleteStaysInBase ==
    last.op = "delete_command" =>
        LET canonical_path == canonicalize(last.disk, last.path)
            canonical_base == canonicalize(last.disk, base_path)
        IN  /\ \A l \in DOMAIN last.disk \ DOMAIN fs : IsUnder(l, canonical_base[1])
            /\ \/ /\ canonical_path # None
                  /\ Len(canonical_path[1]) >= Len(canonical_base[1])
                  /\ SubSeq(canonical_path[1], 1, Len(canonical_base[1])) = canonical_base[1]
               \/ /\ ~last.res.ok
                  /\ fs = last.disk
                  /\ collection_index = last.before

\* a path through the link names a file outside the base directory, the
\* index holds a collection, and the command has refused
C35_Witness ==
    /\ last.op = "delete_command"
    /\ \E i \in DOMAIN last.path : last.path[i] = <<"link">>
    /\ canonicalize(last.disk, last.path) = Some(Cwd \o <<<<"outside">>, CollectionFileName(<<"f1">>)>>)
    /\ last.res = Err(<<"Access denied: path outside collections directory">>)
    /\ DOMAIN collection_index # {}

----------------------------------------------------------------------------
(* CollectionManager::save_collection step by step, by threads sharing the  *)
(* disk and the index: save_yaml as above, then the two inserts of          *)
(* add_to_index, each under its own write lock                              *)

\* the collections the threads save
SavedCollections == {CollA, CollB}

\* the collection argument of the call that serialized doc
SavedCollection(doc) == CHOOSE c \in SavedCollections : SerializeCollection(c) = doc

\* save_collection(collection, filename) is entered by thread w
BeginSaveCollection(w, collection, filename) ==
    LET path == collection_file_path(filename)
    IN  /\ writers[w].pc = "idle"
        /\ writers' = [writers EXCEPT ![w] =
               [IdleWriter EXCEPT !.pc = "create", !.path = path,
                                  !.doc = SerializeCollection(collection),
                                  !.prev = IF exists(path)
                                           THEN Some(fs[Location(path)]) ELSE None]]
        /\ UNCHANGED <<base_path, fs, index_vars, call_vars, renamed, threads, rest_vars>>

\* yaml_store.save_collection(..)? returned an error: so does the manager
SaveFailed(w) ==
    /\ writers[w].pc = "done"
    /\ ~writers[w].res[1].ok
    /\ writers' = [writers EXCEPT ![w].pc = "returned"]
    /\ UNCHANGED <<base_path, fs, index_vars, call_vars, renamed, threads, rest_vars>>

\* add_to_index: collection_index.insert(path, collection.clone())
AddCollectionToIndex(w) ==
    LET me == writers[w]
    IN  /\ me.pc = "done"
        /\ me.res[1].ok
        /\ collection_index' = if_write_ok("collection_index", collection_index,
               index_collection(collection_index, me.path, SavedCollection(me.doc)))
        /\ writers' = [writers EXCEPT ![w].pc = "index_requests"]
        /\ UNCHANGED <<base_path, fs, request_index, call_vars, renamed, threads, rest_vars>>

\* add_to_index: the loop of request_index.insert, then Ok(path)
AddRequestsToIndex(w) ==
    LET me == writers[w]
        requests == SavedCollection(me.doc).requests
    IN  /\ me.pc = "index_requests"
        /\ request_index' = if_write_ok("request_index", request_index,
               index_requests(request_index, me.path, requests, Len(requests)))
        /\ writers' = [writers EXCEPT ![w].pc = "returned",
                                       ![w].res = Some(Ok(me.path))]
        /\ UNCHANGED <<base_path, fs, collection_index, call_vars, renamed, threads, rest_vars>>

NextMgr ==
    \/ \E w \in DOMAIN writers, c \in SavedCollections, f \in Filenames :
           BeginSaveCollection(w, c, f)
    \/ \E w \in DOMAIN writers : CreateTemp(w)
    \/ \E w \in DOMAIN writers : WriteChunk(w)
    \/ \E w \in DOMAIN writers : SyncAll(w)
    \/ \E w \in DOMAIN writers : RenameTemp(w)
    \/ \E w \in DOMAIN writers : SaveFailed(w)
    \/ \E w \in DOMAIN writers : AddCollectionToIndex(w)
    \/ \E w \in DOMAIN writers : AddRequestsToIndex(w)

\* two threads, each saving once
SpecMgr == InitSave /\ [][NextMgr]_vars

----------------------------------------------------------------------------
(* Claims about concurrent save_collection calls (SpecMgr) *)

\* C36: once all of several concurrent save_collection calls for the same
\* file name have returned, the collection cached in collection_index for
\* the path is the collection stored in the file at the path.
C36_IndexMatchesFile ==
    (/\ \A w \in DOMAIN writers : writers[w].pc = "returned"
     /\ \A v, w \in DOMAIN writers : writers[v].path = writers[w].path) =>
        \A w \in DOMAIN writers :
            LET path == writers[w].path
            IN  /\ path \in DOMAIN collection_index
                /\ Location(path) \in DOMAIN fs
                /\ fs[Location(path)] = to_string(SerializeCollection(collection_index[path]))

----------------------------------------------------------------------------
(* Claims about the issue list of validate_and_fix_collection (SpecFix) *)

\* C37: the issue list of validate_and_fix_collection does not depend on the
\* fix flag: the call made returned the issue strings, in the order, that
\* the call with the other flag returns for the same collection.
C37_IssuesIgnoreFixFlag ==
    last.op = "validate" =>
        last.res[2] = validate_and_fix_collection(last.arg, ~last.fix)[2]

----------------------------------------------------------------------------
(* commands/collections.rs: the create_new_collection command.  A name is  *)
(* the sequence of its characters.                                          *)

\* str::to_lowercase, character by character
to_lowercase(c) ==
    CASE c = "A" -> "a" [] c = "I" -> "i" [] c = "M" -> "m" [] c = "P" -> "p"
      [] OTHER -> c

\* char::is_alphanumeric
is_alphanumeric(c) == c \in {"a", "i", "m", "p", "x", "y", "A", "I", "M", "P", "1"}

\* the String of a sequence of characters
RECURSIVE Text(_)
Text(chars) == IF chars = <<>> THEN "" ELSE Text(Front(chars)) \o Last(chars)

\* sanitize_filename
sanitize_filename(name) ==
    LET lowered  == [i \in DOMAIN name |-> to_lowercase(name[i])]
        dashed   == [i \in DOMAIN name |-> IF lowered[i] = " " THEN "-" ELSE lowered[i]]
        filename == SelectSeq(dashed, LAMBDA c : is_alphanumeric(c) \/ c = "-")
    IN  IF filename = <<>> \/ \A i \in DOMAIN filename : filename[i] = "-"
        THEN Err(<<"Collection name must contain at least one alphanumeric character">>)
        ELSE Ok(Text(filename))

\* the display names the frontend passes: "My API", "api", " -", "../x1", ""
CreateNames ==
    {<<"M", "y", " ", "A", "P", "I">>, <<"a", "p", "i">>, <<" ", "-">>,
     <<".", ".", "/", "x", "1">>, <<>>}

\* the create_new_collection command, base being its base_path argument
CreateNewCollection(name, base) ==
    LET collection        == NewCollection(Text(name))
        folder_name       == sanitize_filename(name)
        collection_folder == join(base, <<<<folder_name.val>>>>)
        collection_file   == join(collection_folder, <<<<"collection", "yaml">>>>)
    IN  /\ nops < MaxOps
        /\ IF folder_name.ok
           THEN /\ fs' = WriteFile(fs, Location(collection_file),
                               to_string(SerializeCollection(collection)))
                /\ collection_index' = if_write_ok("collection_index", collection_index,
                       index_collection(collection_index, collection_file, collection))
                /\ request_index' = if_write_ok("request_index", request_index,
                       index_requests(request_index, collection_file, collection.requests,
                                      Len(collection.requests)))
                /\ returned' = returned \cup {collection_file}
                /\ last' = [op |-> "create", name |-> name,
                            res |-> Ok([collection |-> collection, path |-> collection_file])]
           ELSE /\ UNCHANGED <<fs, collection_index, request_index, returned>>
                /\ last' = [op |-> "create", name |-> name, res |-> folder_name]
        /\ Bump
        /\ UNCHANGED base_path

NextCreate ==
    \/ \E name \in CreateNames : CreateNewCollection(name, base_path)
    \/ \E loc \in ExternalLocations, text \in ExternalTexts : ExternalWrite(loc, text)
    \/ ClearIndex
    \/ LoadAllCollections
    \/ ScanCollections

SpecCreate == Init /\ [][NextCreate]_vars

----------------------------------------------------------------------------
(* Claims about create_new_collection (SpecCreate) *)

\* C38: every collection create_new_collection created under the base
\* directory is found by scan_collections, and load_all_collections has it
\* in collection_index again after clear_index or a restart.
C38_CreatedIsScanned ==
    \A path \in returned :
        /\ exists(path) => path \in scan_collections
        /\ (last.op = "load_all" /\ store_load_collection(path).ok)
               => path \in DOMAIN collection_index

----------------------------------------------------------------------------
(* RequestStore::add_request step by step, by threads sharing the store:    *)
(* the name check, self.store.write(), contains_key, insert, and the guard  *)
(* dropped at the return                                                    *)

AddThreads == {"a1", "a2", "a3"}

\* the names the threads pass
AddNames == {"x", "y", "z", " "}

\* the request each thread passes
ThreadRequest(t) ==
    CASE t = "a1" -> ReqX
      [] t = "a2" -> ReqX2
      [] t = "a3" -> ReqY

IdleAdder == [pc |-> "idle", name |-> "", res |-> None]

\* the thread holds the guard of self.store.write()
HoldsStore(t) == threads[t].pc \in {"contains_key", "insert"}

\* (mutant) the store is locked for reading: the guard is granted at once
store_write_shared(t) == TRUE

\* RwLock::write is granted: no other thread holds a guard of the store
store_write(t) == \A u \in DOMAIN threads \ {t} : ~HoldsStore(u)

AddFrame == UNCHANGED <<base_path, fs, index_vars, call_vars, save_vars, watch_vars, lock_vars>>

\* add_request(name, request) is called: if name.trim().is_empty()
AddEnter(t, name) ==
    /\ threads[t].pc = "idle"
    /\ threads' = [threads EXCEPT ![t] =
           IF trim_is_empty(name)
           THEN [pc |-> "returned", name |-> name,
                 res |-> Some(Err("Request name cannot be empty"))]
           ELSE [pc |-> "write", name |-> name, res |-> None]]
    /\ UNCHANGED store
    /\ AddFrame

\* let mut store = self.store.write().unwrap()
AddWrite(t) ==
    /\ threads[t].pc = "write"
    /\ store_write(t)
    /\ threads' = [threads EXCEPT ![t].pc = "contains_key"]
    /\ UNCHANGED store
    /\ AddFrame

\* if store.contains_key(name): the error is returned, the guard dropped
AddContainsKey(t) ==
    LET me == threads[t]
    IN  /\ me.pc = "contains_key"
        /\ threads' = [threads EXCEPT ![t] =
               IF me.name \in DOMAIN store
               THEN [me EXCEPT !.pc = "returned",
                               !.res = Some(Err("Request with name '" \o me.name
                                                    \o "' already exists"))]
               ELSE [me EXCEPT !.pc = "insert"]]
        /\ UNCHANGED store
        /\ AddFrame

\* store.insert(name.to_string(), request); Ok(())
AddInsert(t) ==
    LET me == threads[t]
    IN  /\ me.pc = "insert"
        /\ store' = Insert(store, me.name, ThreadRequest(t))
        /\ threads' = [threads EXCEPT ![t].pc = "returned", ![t].res = Some(Ok(<<>>))]
        /\ AddFrame

\* RequestStore::new(), shared by the threads
InitAdd ==
    /\ base_path \in BasePaths
    /\ fs = EmptyMap
    /\ collection_index = EmptyMap
    /\ request_index = EmptyMap
    /\ last = [op |-> "new"]
    /\ returned = {}
    /\ nops = 0
    /\ writers = EmptyMap
    /\ renamed = EmptyMap
    /\ threads = [t \in AddThreads |-> IdleAdder]
    /\ InitRest

NextAdd ==
    \/ \E t \in AddThreads, name \in AddNames : AddEnter(t, name)
    \/ \E t \in AddThreads : AddWrite(t)
    \/ \E t \in AddThreads : AddContainsKey(t)
    \/ \E t \in AddThreads : AddInsert(t)

SpecAdd == InitAdd /\ [][NextAdd]_vars

----------------------------------------------------------------------------
(* Claims about concurrent adds to the request store (SpecAdd) *)

\* the threads whose add returned Ok
Succeeded == {t \in AddThreads : threads[t].res = Some(Ok(<<>>))}

\* C39: when the threads have added concurrently to an empty store under one
\* non-empty name, exactly one call succeeded, the others failed with
\* "already exists", and the store holds the request of the successful call;
\* when they added under pairwise distinct names, all succeeded and len()
\* is their number.
C39_ConcurrentAdd ==
    (\A t \in AddThreads : threads[t].pc = "returned" /\ ~trim_is_empty(threads[t].name)) =>
        /\ (\A t, u \in AddThreads : threads[t].name = threads[u].name) =>
               /\ Cardinality(Succeeded) = 1
               /\ \A t \in AddThreads \ Succeeded :
                      threads[t].res = Some(Err("Request with name '" \o threads[t].name
                                                    \o "' already exists"))
               /\ \A t \in Succeeded :
                      /\ DOMAIN store = {threads[t].name}
                      /\ store[threads[t].name] = ThreadRequest(t)
        /\ (\A t, u \in AddThreads : t # u => threads[t].name # threads[u].name) =>
               /\ Succeeded = AddThreads
               /\ len(store) = Cardinality(AddThreads)

\* three threads have added under the name "x", and the one that succeeded
\* was not the first to call
C39_Witness ==
    /\ \A t \in AddThreads : threads[t].pc = "returned" /\ threads[t].name = "x"
    /\ "a1" \notin Succeeded
    /\ Succeeded # {}

----------------------------------------------------------------------------
(* load_collection and save_collection when the operating system reports an *)
(* error: each fallible call of save_yaml and of YAMLStore::load_collection *)
(* returns through ?                                                        *)

\* the calls of save_yaml that return an io::Error
SaveFailures == {"create_dir_all", "create", "write_all", "sync_all", "rename"}

\* the disk after save_yaml failed at the call named at, k chunks written
\* when write_all failed
disk_after_failure(disk, file_path, text, at, k) ==
    LET tmp == Location(temp_path(file_path))
    IN  CASE at \in {"create_dir_all", "create"} -> disk
          [] at = "write_all" -> WriteFile(disk, tmp, SubSeq(text, 1, k))
          [] OTHER -> WriteFile(disk, tmp, text)

\* (mutant) the index is updated before the file is written
save_failed_indexed(cidx, path, collection) == index_collection(cidx, path, collection)

\* save_collection, yaml_store.save_collection(..)? is an Err: add_to_index
\* is not reached
save_failed(cidx, path, collection) == cidx

\* CollectionManager::save_collection, save_yaml failing at the call named at
SaveCollectionFails(collection, filename, at) ==
    LET path == collection_file_path(filename)
    IN  /\ nops < MaxOps
        /\ \E k \in 0..(NChunks - 1) :
               fs' = disk_after_failure(fs, path, to_string(SerializeCollection(collection)),
                                        at, k)
        /\ collection_index' = save_failed(collection_index, path, collection)
        /\ last' = [op |-> "save", path |-> path, res |-> Err(<<"ReadError", at>>),
                    arg |-> collection]
        /\ Bump
        /\ UNCHANGED <<base_path, request_index, returned>>

\* CollectionManager::load_collection, fs::read_to_string failing on a file
\* that is there
LoadCollectionFails(path) ==
    /\ nops < MaxOps
    /\ exists(resolve_path(path))
    /\ last' = [op |-> "load", path |-> path, res |-> Err(<<"ReadError", "read_to_string">>)]
    /\ Bump
    /\ UNCHANGED <<base_path, fs, index_vars, returned>>

NextErr ==
    \/ \E c \in {CollA, CollB}, f \in Filenames : SaveCollection(c, f)
    \/ \E c \in {CollA, CollB}, f \in Filenames, at \in SaveFailures :
           SaveCollectionFails(c, f, at)
    \/ \E p \in CallPaths : LoadCollection(p)
    \/ \E p \in CallPaths : LoadCollectionFails(p)
    \/ \E loc \in ExternalLocations, text \in ExternalTexts : ExternalWrite(loc, text)

SpecErr == Init /\ [][NextErr]_vars

----------------------------------------------------------------------------
(* Claims about failed calls (SpecErr) *)

\* C40: a load_collection or save_collection that returns an error (file not
\* found, parse error, I/O error) leaves collection_index and request_index
\* as they were before the call.
C40_ErrorLeavesIndex ==
    [][(nops' # nops /\ last'.op \in {"load", "save"} /\ ~last'.res.ok)
          => (collection_index' = collection_index /\ request_index' = request_index)]_vars

\* a save failed after the index held a collection under its path, and its
\* temporary file is left on the disk
C40_Witness ==
    /\ last.op = "save"
    /\ ~last.res.ok
    /\ last.path \in DOMAIN collection_index
    /\ collection_index[last.path] # last.arg
    /\ Location(temp_path(last.path)) \in DOMAIN fs

============================================================================
